---- MODULE Spec2Model ----
(***************************************************************************)
(* A model of utilities/fields.py of SEAMLeSS: the DisplacementField       *)
(* tensor type, its construction paths and type-promotion wrapper, and the *)
(* vector-voting consensus DisplacementField.vote().                       *)
(*                                                                         *)
(* Arithmetic.  vote() is elementwise over the spatial axes (H, W) once    *)
(* the optional blur has been applied, so the model follows one pixel of   *)
(* the (N, 2, H, W) ensemble.  Reals are modelled exactly, as fractions    *)
(* with a common denominator.  exp() is exact on a lattice of inputs:      *)
(* displacement vectors are integer multiples of LatticeVec, and one       *)
(* model unit of length stands for ln(Base) * PairLcm * TempLcm / DistUnit *)
(* real units, so that exp(-mavg / softmin_temp) = Base^(-k) with k the    *)
(* integer computed by Exponent().                                         *)
(***************************************************************************)
EXTENDS Integers, Sequences, FiniteSets, TLC

\* ------------------------------------------------------------------ bounds

\* largest ensemble size N that is enumerated
MaxN == 5
\* base of the exponential on the input lattice (see the header)
Base == 2

\* ------------------------------------------------------- generic helpers

RECURSIVE SumSeq(_)
SumSeq(s) == IF s = <<>> THEN 0 ELSE Head(s) + SumSeq(Tail(s))

RECURSIVE Pow(_, _)
Pow(b, e) == IF e = 0 THEN 1 ELSE b * Pow(b, e - 1)

RECURSIVE Gcd(_, _)
Gcd(a, b) == IF b = 0 THEN a ELSE Gcd(b, a % b)

Lcm(a, b) == (a * b) \div Gcd(a, b)

RECURSIVE LcmSet(_)
LcmSet(S) == IF S = {} THEN 1
             ELSE LET x == CHOOSE y \in S : TRUE IN Lcm(x, LcmSet(S \ {x}))

Abs(x) == IF x < 0 THEN -x ELSE x

MaxOf(S) == CHOOSE x \in S : \A y \in S : y <= x

MinOf(S) == CHOOSE x \in S : \A y \in S : x <= y

\* the sequence s as an explicit tuple (a function over 1..n, evaluated once)
AsTuple(s) == s \o <<>>

\* the element of a set of one element: {e(x) : x \in {v}} names a value
\* that e uses more than once
The(S) == CHOOSE x \in S : TRUE

SeqToSet(s) == {s[i] : i \in 1..Len(s)}

\* number of k-element subsets of an n-element set
RECURSIVE Binomial(_, _)
Binomial(n, k) == IF k = 0 THEN 1
                  ELSE IF n = 0 THEN 0
                  ELSE Binomial(n - 1, k - 1) + Binomial(n - 1, k)

\* ------------------------------------------------- the inputs of vote()

\* the lattice of displacement vectors: multiples of LatticeVec
LatticeVec == <<3, 4>>

Vectors == {<<a * LatticeVec[1], a * LatticeVec[2]>> : a \in 0..2}

\* One field of the ensemble, at the pixel: v is its displacement vector,
\* b the vector its Gaussian-blurred version holds there.  The blur is a
\* function of the whole field, so b is not determined by v, and two copies
\* of one field agree on both.  The fields enumerated are those whose blur
\* leaves the vector alone or shortens it by one lattice step.
Fields == {f \in [v : Vectors, b : Vectors] :
             \/ f.b = f.v
             \/ f.b = <<f.v[1] - LatticeVec[1], f.v[2] - LatticeVec[2]>>}

\* softmin_temp: finite and positive
SoftminTemps == {1, 2}

\* blur_sigma: None is <<>>, a number s is <<s>>
None == <<>>

BlurSigmas == {None, <<0>>, <<1>>}

\* Python truthiness of blur_sigma: None and 0 are false
Truthy(sigma) == sigma # None /\ sigma[1] # 0

RECURSIVE SeqsUpTo(_, _)
SeqsUpTo(S, n) == IF n = 0 THEN {<<>>}
                  ELSE LET shorter == SeqsUpTo(S, n - 1)
                       IN shorter \cup {Append(s, x) : s \in {t \in shorter : Len(t) = n - 1}, x \in S}

\* self: a tensor of ndim dimensions; for ndim = 4 its shape is (N, 2, H, W)
\* and f lists the N fields
VoteInputs == [ndim : {4}, f : SeqsUpTo(Fields, MaxN)]
                \cup [ndim : {3, 5}, f : SeqsUpTo(Fields, 1)]

\* ---------------------------------------------------- magnitude, distance

ISqrt(n) == CHOOSE r \in 0..n : r * r = n

Magnitude(v) == ISqrt(v[1] * v[1] + v[2] * v[2])

Distance(a, b) == Magnitude(<<a[1] - b[1], a[2] - b[2]>>)

DistUnit == Magnitude(LatticeVec)

\* ------------------------------------------------------ state variables

VARIABLES
    self,        \* the tensor vote() or a method is called on, with the arguments
    ret,         \* the outcome of that call: NoCall before it
    heap,        \* the tensor objects alive: per object its runtime class and shape
    tret,        \* the outcome of the last call on the DisplacementField type
    identities,  \* DisplacementField._identities: NoCache, or key -> tensor
    tensors,     \* the identity mappings created: per tensor its contents
    procs        \* per thread, where it is in identity_mapping and its locals

voteVars == <<self, ret>>

typeVars == <<heap, tret>>

cacheVars == <<identities, tensors, procs>>

vars == <<self, ret, heap, tret, identities, tensors, procs>>

MaxProcs == 2

Procs == 1..MaxProcs

\* the class has no attribute _identities
NoCache == [set |-> FALSE]

NoCall == [kind |-> "none"]

\* a thread outside identity_mapping
IdleProc == [pc |-> "idle", calls |-> 0, key |-> <<>>, cache |-> FALSE, Id |-> 0,
             last |-> NoCall]

\* nothing has called identity_mapping
IdleCache ==
    /\ identities = NoCache
    /\ tensors = <<>>
    /\ procs = [p \in Procs |-> IdleProc]

\* what the variables of each part hold while another part runs
notVoteVars == <<typeVars, cacheVars>>

notTypeVars == <<voteVars, cacheVars>>


\* ------------------------------------------------------ tensor objects

\* most dimensions a tensor has
MaxRank == 3
\* most tensor objects alive at once
MaxObjects == 1

DimSizes == {2, 3}

Shapes == UNION {[1..r -> DimSizes] : r \in 2..MaxRank}

Free == [cls |-> "free"]

ObjectIds == 1..MaxObjects

EmptyHeap == [o \in ObjectIds |-> Free]

PlainTensors == [cls : {"Tensor"}, shape : Shapes]

Live(h) == {o \in ObjectIds : h[o] # Free}

\* the slot a newly created tensor takes
NewId(h) == MinOf(ObjectIds \ Live(h))

\* ------------------------------------------------ DisplacementField.vote

\* range(n) as a sequence: 0, ..., n-1
Range(n) == AsTuple([i \in 1..n |-> i - 1])

\* itertools.combinations(s, r): the r-length subsequences of s, in
\* lexicographic order of their positions
RECURSIVE Combinations(_, _)
Combinations(s, r) ==
    IF r = 0 THEN << <<>> >>
    ELSE IF Len(s) < r THEN <<>>
    ELSE LET withHead == Combinations(Tail(s), r - 1)
         IN AsTuple([i \in 1..Len(withHead) |-> <<Head(s)>> \o withHead[i]])
                \o Combinations(Tail(s), r)

\* mutant: the majority size rounded up once too often
MajorityTooLarge(n) == (n + 1) \div 2 + 1

\* m = (n + 1) // 2
Majority(n) == (n + 1) \div 2

\* gaussian_blur(sigma): per field, its blurred version (at the pixel)
GaussianBlur(f) == AsTuple([i \in 1..Len(f) |-> f[i].b])

\* blurred = self.gaussian_blur(sigma=blur_sigma) if blur_sigma else self
Blurred(f, sigma) == IF Truthy(sigma) THEN GaussianBlur(f)
                     ELSE AsTuple([i \in 1..Len(f) |-> f[i].v])

\* dists: zeros((n, n, H, W)), then for j < i:
\*   dists[i, j] = dists[j, i] = blurred[i].distance(blurred[j])
\* Row i and column j of the tensor are dists[i + 1][j + 1] here.
Dists(blurred) ==
    AsTuple([r \in 1..Len(blurred) |-> AsTuple([c \in 1..Len(blurred) |->
        IF r = c THEN 0
        ELSE LET hi == IF r > c THEN r ELSE c
                 lo == IF r > c THEN c ELSE r
             IN Distance(blurred[hi], blurred[lo])])])

\* stack([dists[i, j] for i, j in combinations(mtuple, 2)]).mean(dim=0),
\* as the fraction num / den
MtupleAvg(dists, mtuple) ==
    LET pairs == Combinations(mtuple, 2)
    IN [num |-> SumSeq([p \in 1..Len(pairs) |-> dists[pairs[p][1] + 1][pairs[p][2] + 1]]),
        den |-> Len(pairs)]

\* the lattice constants of the header
PairLcm == LcmSet({Binomial(Majority(n), 2) : n \in {k \in 3..MaxN : k % 2 = 1}})

TempLcm == LcmSet(SoftminTemps)

\* k with exp(-avg / temp) = Base^(-k)
Exponent(avg, temp) ==
    (avg.num \div DistUnit) * (PairLcm \div avg.den) * (TempLcm \div temp)

\* mutant: the sign of the softmin dropped, a softmax of +mavg / softmin_temp
SoftmaxOfDistance(mavg, temp) ==
    LET k == AsTuple([i \in 1..Len(mavg) |-> Exponent(mavg[i], temp)])
        kmin == MinOf(SeqToSet(k))
        e == AsTuple([i \in 1..Len(mavg) |-> Pow(Base, k[i] - kmin)])
    IN [num |-> e, den |-> SumSeq(e)]

\* (-mavg / softmin_temp).softmax(dim=0): the fractions num[i] / den
Softmin(mavg, temp) ==
    LET k == AsTuple([i \in 1..Len(mavg) |-> Exponent(mavg[i], temp)])
        kmax == MaxOf(SeqToSet(k))
        e == AsTuple([i \in 1..Len(mavg) |-> Pow(Base, kmax - k[i])])
    IN [num |-> e, den |-> SumSeq(e)]

\* mutant: the inner loop over an m-tuple reaching its last member only
AssignToLastMember(n, mtuples, mtw) ==
    [num |-> AsTuple([jj \in 1..n |->
                SumSeq([i \in 1..Len(mtuples) |->
                    IF mtuples[i][Len(mtuples[i])] = jj - 1 THEN mtw.num[i] ELSE 0])]),
     den |-> mtw.den]

\* mutant: each m-tuple's weight credited to its first member only
AssignToFirstMember(n, mtuples, mtw) ==
    [num |-> AsTuple([jj \in 1..n |->
                SumSeq([i \in 1..Len(mtuples) |->
                    IF mtuples[i][1] = jj - 1 THEN mtw.num[i] ELSE 0])]),
     den |-> mtw.den]

\* field_weights = zeros((n, H, W));
\* for i, mtuple in enumerate(mtuples): for j in mtuple:
\*     field_weights[j] += mt_weights[i]
AssignWeights(n, mtuples, mtw) ==
    [num |-> AsTuple([jj \in 1..n |->
                SumSeq([i \in 1..Len(mtuples) |->
                    SumSeq([t \in 1..Len(mtuples[i]) |->
                        IF mtuples[i][t] = jj - 1 THEN mtw.num[i] ELSE 0])])]),
     den |-> mtw.den]

\* fw.sum(dim=0, keepdim=True): the fraction num / den
SumWeights(fw) == [num |-> SumSeq(fw.num), den |-> fw.den]

\* fw / total, elementwise: (a / Z) / (p / q) = (a * q) / (Z * p), with the
\* common factor of Z and q cancelled
DivideWeights(fw, total) ==
    LET g == Gcd(fw.den, total.den)
    IN [num |-> AsTuple([i \in 1..Len(fw.num) |-> fw.num[i] * (total.den \div g)]),
        den |-> (fw.den \div g) * total.num]

\* mutant: the accumulated weights left as they are
NotNormalized(fw) == fw

\* field_weights = field_weights / field_weights.sum(dim=0, keepdim=True)
NormalizeWeights(fw) == DivideWeights(fw, SumWeights(fw))

\* mutant: the weighted sum taken over the blurred fields
WeightedSumOfBlurred(f, w) ==
    [x |-> SumSeq([i \in 1..Len(f) |-> f[i].b[1] * w.num[i]]),
     y |-> SumSeq([i \in 1..Len(f) |-> f[i].b[2] * w.num[i]]),
     den |-> w.den]

\* (self * field_weights.unsqueeze(-3)).sum(dim=0, keepdim=True)
WeightedSum(f, w) ==
    [x |-> SumSeq([i \in 1..Len(f) |-> f[i].v[1] * w.num[i]]),
     y |-> SumSeq([i \in 1..Len(f) |-> f[i].v[2] * w.num[i]]),
     den |-> w.den]

\* the value a field holds at the pixel, as a fraction
ValueOf(fld) == [x |-> fld.v[1], y |-> fld.v[2], den |-> 1]

\* The outcome of self.vote(softmin_temp, blur_sigma) records the arguments,
\* whether the call returned or raised, whether the returned object is self,
\* which computations ran, and the locals of the computation.

\* if self.ndimension() != 4: raise ValueError
VoteRaiseDim(temp, sigma) ==
    /\ self.ndim # 4
    /\ ret' = [kind |-> "raise", err |-> "ValueError: 4 dimensions",
               args |-> [temp |-> temp, sigma |-> sigma], ran |-> {}]

\* mutant: an even ensemble handed back instead of rejected
VoteReturnEven(temp, sigma) ==
    /\ self.ndim = 4
    /\ Len(self.f) % 2 = 0
    /\ ret' = [kind |-> "return", same |-> TRUE,
               args |-> [temp |-> temp, sigma |-> sigma], ran |-> {},
               out |-> [x |-> 0, y |-> 0, den |-> 1]]

\* if n % 2 == 0: raise ValueError
VoteRaiseEven(temp, sigma) ==
    /\ self.ndim = 4
    /\ Len(self.f) % 2 = 0
    /\ ret' = [kind |-> "raise", err |-> "ValueError: even number",
               args |-> [temp |-> temp, sigma |-> sigma], ran |-> {}]

\* mutant: the single field blurred and returned as a new tensor
VoteSingleBlurred(temp, sigma) ==
    /\ self.ndim = 4
    /\ Len(self.f) % 2 # 0
    /\ Len(self.f) = 1
    /\ ret' = [kind |-> "return", same |-> FALSE,
               args |-> [temp |-> temp, sigma |-> sigma],
               ran |-> IF Truthy(sigma) THEN {"blur"} ELSE {},
               out |-> IF Truthy(sigma)
                       THEN [x |-> self.f[1].b[1], y |-> self.f[1].b[2], den |-> 1]
                       ELSE ValueOf(self.f[1])]

\* elif n == 1: return self
VoteSingle(temp, sigma) ==
    /\ self.ndim = 4
    /\ Len(self.f) % 2 # 0
    /\ Len(self.f) = 1
    /\ ret' = [kind |-> "return", same |-> TRUE,
               args |-> [temp |-> temp, sigma |-> sigma], ran |-> {},
               out |-> ValueOf(self.f[1])]

\* the rest of vote(): each \E binds one local of the function
VoteConsensus(temp, sigma) ==
    /\ self.ndim = 4
    /\ Len(self.f) % 2 # 0
    /\ Len(self.f) # 1
    /\ \E n \in {Len(self.f)} :
       \E m \in {Majority(n)}, blurred \in {Blurred(self.f, sigma)} :
       \E dists \in {Dists(blurred)}, mtuples \in {Combinations(Range(n), m)} :
       \E mavg \in {AsTuple([i \in 1..Len(mtuples) |-> MtupleAvg(dists, mtuples[i])])} :
       \E mt_weights \in {Softmin(mavg, temp)} :
       \E field_weights \in {NormalizeWeights(AssignWeights(n, mtuples, mt_weights))} :
          ret' = [kind |-> "return", same |-> FALSE,
                  args |-> [temp |-> temp, sigma |-> sigma],
                  ran |-> (IF Truthy(sigma) THEN {"blur"} ELSE {})
                             \cup {"dists", "mtuples", "softmax", "weights", "sum"},
                  out |-> WeightedSum(self.f, field_weights),
                  m |-> m, dists |-> dists, mtuples |-> mtuples, mavg |-> mavg,
                  mt_weights |-> mt_weights, field_weights |-> field_weights]

InitVote ==
    /\ self \in VoteInputs
    /\ ret = NoCall
    /\ heap = EmptyHeap
    /\ tret = NoCall
    /\ IdleCache

\* one call self.vote(softmin_temp, blur_sigma), by the path it takes
VoteDim ==
    /\ ret = NoCall
    /\ UNCHANGED <<self, notVoteVars>>
    /\ \E temp \in SoftminTemps, sigma \in BlurSigmas : VoteRaiseDim(temp, sigma)

VoteEven ==
    /\ ret = NoCall
    /\ UNCHANGED <<self, notVoteVars>>
    /\ \E temp \in SoftminTemps, sigma \in BlurSigmas : VoteRaiseEven(temp, sigma)

VoteOne ==
    /\ ret = NoCall
    /\ UNCHANGED <<self, notVoteVars>>
    /\ \E temp \in SoftminTemps, sigma \in BlurSigmas : VoteSingle(temp, sigma)

VoteMany ==
    /\ ret = NoCall
    /\ UNCHANGED <<self, notVoteVars>>
    /\ \E temp \in SoftminTemps, sigma \in BlurSigmas : VoteConsensus(temp, sigma)

Vote == VoteDim \/ VoteEven \/ VoteOne \/ VoteMany

NextVote == Vote

SpecVote == InitVote /\ [][NextVote]_vars

\* ---------------------------------------------------- claims about vote

RECURSIVE SumOver(_, _)
SumOver(S, f) == IF S = {} THEN 0
                 ELSE LET x == CHOOSE y \in S : TRUE IN f[x] + SumOver(S \ {x}, f)

\* vote() went past its early exits and computed a consensus
Consensus == ret.kind = "return" /\ ~ret.same

\* the vectors the pairwise distances are measured on
Measured(i) == IF Truthy(ret.args.sigma) THEN self.f[i].b ELSE self.f[i].v

\* C1: for odd N >= 3 the final per-field weights are non-negative and sum
\* to exactly 1 across the N fields.
C1_WeightsSumToOne ==
    Consensus =>
        LET w == ret.field_weights
        IN /\ Len(w.num) = Len(self.f)
           /\ w.den > 0
           /\ \A j \in 1..Len(w.num) : w.num[j] >= 0
           /\ SumOver(1..Len(w.num), w.num) = w.den

C1_Witness ==
    /\ Consensus
    /\ Len(self.f) = 5
    /\ \E i, j \in 1..5 : ret.field_weights.num[i] # ret.field_weights.num[j]
    /\ \E i, j \in 1..5 : Distance(Measured(i), Measured(j)) = 2 * DistUnit

\* C2: an ensemble of N copies of one field f (N odd) is voted to f: for
\* N >= 3 all pairwise distances are zero, all m-subsets weigh the same and
\* every field weighs 1/N.
AllCopies == Len(self.f) >= 1 /\ \A i \in 1..Len(self.f) : self.f[i] = self.f[1]

C2_CopiesVoteToThemselves ==
    (self.ndim = 4 /\ Len(self.f) % 2 = 1 /\ AllCopies /\ ret # NoCall) =>
        /\ ret.kind = "return"
        /\ ret.out.den > 0
        /\ ret.out.x = self.f[1].v[1] * ret.out.den
        /\ ret.out.y = self.f[1].v[2] * ret.out.den
        /\ Len(self.f) >= 3 =>
              /\ \A i, j \in 1..Len(self.f) : ret.dists[i][j] = 0
              /\ \A i, j \in 1..Len(ret.mtuples) :
                    ret.mt_weights.num[i] = ret.mt_weights.num[j]
              /\ \A j \in 1..Len(self.f) :
                    ret.field_weights.num[j] * Len(self.f) = ret.field_weights.den

C2_Witness ==
    /\ Consensus
    /\ AllCopies
    /\ Len(self.f) = 5
    /\ Truthy(ret.args.sigma)
    /\ self.f[1].v = <<2 * LatticeVec[1], 2 * LatticeVec[2]>>
    /\ self.f[1].b # self.f[1].v

\* C3: in {f, f, f, g, g} (in any order) with f and g a distance d > 0
\* apart where vote() measures it, the all-f 3-subset alone has zero
\* disagreement, each f outweighs each g, the g copies weigh
\* 4 / (Base^k + 9) in total with k proportional to d / softmin_temp, and
\* the consensus is f moved towards g by that share.
IndicesOf(fld) == {i \in 1..Len(self.f) : self.f[i] = fld}

MajorityCase(f, g) ==
    /\ Consensus
    /\ Len(self.f) = 5
    /\ Cardinality(IndicesOf(f)) = 3
    /\ Cardinality(IndicesOf(g)) = 2
    /\ Distance(Measured(CHOOSE i \in IndicesOf(f) : TRUE),
                Measured(CHOOSE j \in IndicesOf(g) : TRUE)) > 0

C3_MajorityWins ==
    \A f, g \in Fields :
        MajorityCase(f, g) =>
            LET F == IndicesOf(f)
                G == IndicesOf(g)
                d == Distance(Measured(CHOOSE i \in F : TRUE), Measured(CHOOSE j \in G : TRUE))
                w == ret.field_weights
                gw == SumOver(G, w.num)
                k == Exponent([num |-> 2 * d, den |-> 3], ret.args.temp)
            IN /\ \A t \in 1..Len(ret.mtuples) :
                    (ret.mavg[t].num = 0) <=> ({j + 1 : j \in SeqToSet(ret.mtuples[t])} = F)
               /\ \A i \in F, j \in G : w.num[i] > w.num[j]
               /\ k * ret.args.temp * 3 * DistUnit = 2 * d * PairLcm * TempLcm
               /\ gw * (Pow(Base, k) + 9) = 4 * w.den
               /\ ret.out.den = w.den
               /\ ret.out.x = f.v[1] * (w.den - gw) + g.v[1] * gw
               /\ ret.out.y = f.v[2] * (w.den - gw) + g.v[2] * gw

C3_Witness ==
    \E f, g \in Fields :
        /\ MajorityCase(f, g)
        /\ Truthy(ret.args.sigma)
        /\ ret.args.temp = 1
        /\ f.v # f.b
        /\ self.f[1] = g

\* C4: on a single-field ensemble vote() returns the input object itself
\* and runs no blurring, distance, subset or weight computation, whatever
\* softmin_temp and blur_sigma are.
C4_SingleFieldReturnsSelf ==
    (self.ndim = 4 /\ Len(self.f) = 1 /\ ret # NoCall) =>
        /\ ret.kind = "return"
        /\ ret.same
        /\ ret.out = ValueOf(self.f[1])
        /\ ret.ran = {}

C4_Witness ==
    /\ self.ndim = 4
    /\ Len(self.f) = 1
    /\ ret # NoCall
    /\ Truthy(ret.args.sigma)
    /\ self.f[1].b # self.f[1].v

\* C5: on an ensemble of even size vote() raises the ensemble-size
\* ValueError, returns no field and has run no computation.
C5_EvenEnsembleRejected ==
    (self.ndim = 4 /\ Len(self.f) % 2 = 0 /\ ret # NoCall) =>
        /\ ret.kind = "raise"
        /\ ret.err = "ValueError: even number"
        /\ ret.ran = {}
        /\ "out" \notin DOMAIN ret

C5_Witness ==
    /\ self.ndim = 4
    /\ Len(self.f) = 4
    /\ ret # NoCall
    /\ \E i, j \in 1..4 : self.f[i] # self.f[j]

\* C6: the consensus is the weighted sum of the original (unblurred)
\* vectors; the blur runs exactly when blur_sigma is set and non-zero, and
\* then only the distances are measured on the blurred vectors, otherwise
\* on the original ones.
C6_BlurOnlyInDistances ==
    Consensus =>
        LET w == ret.field_weights
            n == Len(self.f)
        IN /\ ("blur" \in ret.ran) <=> (ret.args.sigma \notin {None, <<0>>})
           /\ \A i, j \in 1..n :
                 ret.dists[i][j] =
                    IF "blur" \in ret.ran THEN Distance(self.f[i].b, self.f[j].b)
                    ELSE Distance(self.f[i].v, self.f[j].v)
           /\ ret.out.den = w.den
           /\ ret.out.x = SumOver(1..n, [j \in 1..n |-> self.f[j].v[1] * w.num[j]])
           /\ ret.out.y = SumOver(1..n, [j \in 1..n |-> self.f[j].v[2] * w.num[j]])

C6_Witness ==
    /\ Consensus
    /\ "blur" \in ret.ran
    /\ \E i \in 1..Len(self.f) : self.f[i].b # self.f[i].v
    /\ \E i, j \in 1..Len(self.f) :
          Distance(self.f[i].b, self.f[j].b) # Distance(self.f[i].v, self.f[j].v)
    /\ ret.out.x # SumOver(1..Len(self.f),
                      [j \in 1..Len(self.f) |-> self.f[j].b[1] * ret.field_weights.num[j]])

\* C7: for odd N >= 3, m = (N + 1) / 2 is the smallest size with 2m > N,
\* the m-tuples are all the m-element subsets of the N indices, each
\* exactly once, and each is scored by the mean of its C(m, 2) pairwise
\* distances.
SubsetsOfSize(S, k) == {T \in SUBSET S : Cardinality(T) = k}

C7_AllMajoritySubsets ==
    Consensus =>
        LET n == Len(self.f)
            m == ret.m
            idx == 0..(n - 1)
        IN /\ 2 * m = n + 1
           /\ 2 * m > n /\ ~(2 * (m - 1) > n)
           /\ Len(ret.mtuples) = Binomial(n, m)
           /\ {SeqToSet(ret.mtuples[t]) : t \in 1..Len(ret.mtuples)} = SubsetsOfSize(idx, m)
           /\ Cardinality(SubsetsOfSize(idx, m)) = Len(ret.mtuples)
           /\ \A t \in 1..Len(ret.mtuples) :
                 LET members == SeqToSet(ret.mtuples[t])
                     pairs == {p \in members \X members : p[1] < p[2]}
                 IN /\ Len(ret.mtuples[t]) = m
                    /\ Cardinality(members) = m
                    /\ Cardinality(pairs) = Binomial(m, 2)
                    /\ ret.mavg[t].den = Cardinality(pairs)
                    /\ ret.mavg[t].num =
                          SumOver(pairs, [p \in pairs |->
                              Distance(Measured(p[1] + 1), Measured(p[2] + 1))])

C7_Witness ==
    /\ Consensus
    /\ Len(self.f) = 5
    /\ ret.m = 3
    /\ Len(ret.mtuples) = 10
    /\ \E s, t \in 1..10 : ret.mavg[s].num # ret.mavg[t].num

\* ------------------------------- DisplacementField: construction, conversion

\* the two checks of __init__ and field_: "ok", or the error raised
ShapeError(shape) ==
    IF Len(shape) < 3 THEN "ValueError: must have a components dimension"
    ELSE IF shape[Len(shape) - 2] # 2 THEN "ValueError: must have exactly 2 components"
    ELSE "ok"

ShapeErrors == {"ValueError: must have a components dimension",
                "ValueError: must have exactly 2 components"}

Field(shape) == [cls |-> "DisplacementField", shape |-> shape]

Tensor(shape) == [cls |-> "Tensor", shape |-> shape]

\* a value that is no torch.Tensor
NonTensor == [cls |-> "other"]

\* mutant: the class reassigned before the shape is checked
FieldInplaceUnchecked(obj) ==
    IF obj.cls \notin {"Tensor", "DisplacementField"}
    THEN [kind |-> "raise", err |-> "TypeError", obj |-> obj]
    ELSE IF ShapeError(obj.shape) # "ok"
    THEN [kind |-> "raise", err |-> ShapeError(obj.shape), obj |-> Field(obj.shape)]
    ELSE [kind |-> "return", err |-> "", obj |-> Field(obj.shape)]

\* obj.field_(): the outcome, and the object as the call leaves it
FieldInplace(obj) ==
    IF obj.cls \notin {"Tensor", "DisplacementField"}
    THEN [kind |-> "raise", err |-> "TypeError", obj |-> obj]
    ELSE IF ShapeError(obj.shape) # "ok"
    THEN [kind |-> "raise", err |-> ShapeError(obj.shape), obj |-> obj]
    ELSE [kind |-> "return", err |-> "", obj |-> Field(obj.shape)]

\* mutant: a failed conversion reaches the caller
ReturnSubclassTypeNoCatch(out) ==
    IF out.cls = "Tensor" THEN FieldInplace(out)
    ELSE [kind |-> "return", err |-> "", obj |-> out]

\* mutant: the result handed back without the conversion
ReturnSubclassTypeNoCast(out) == [kind |-> "return", err |-> "", obj |-> out]

\* f_decorated of return_subclass_type, after out = f(*args, **kwargs):
\* a result of the superclass type is converted in place by
\* cls._from_superclass (field_); an exception of the conversion is
\* swallowed and out returned as the conversion left it
ReturnSubclassType(out) ==
    IF out.cls = "Tensor"
    THEN [kind |-> "return", err |-> "", obj |-> FieldInplace(out).obj]
    ELSE [kind |-> "return", err |-> "", obj |-> out]

\* the outcome of a call: op its name, shape the shape asked for or of the
\* argument, arg the object it was called on (0: none), before that object
\* as it was, raised the exception the wrapped function raised ("": none),
\* raw the value the wrapped function returned, out the object returned
\* (0: none, or no tensor)
Outcome(op, shape, arg, before, raised, raw, kind, err, out) ==
    [op |-> op, shape |-> shape, arg |-> arg, before |-> before, raised |-> raised,
     raw |-> raw, kind |-> kind, err |-> err, out |-> out]

HasRoom == Live(heap) # ObjectIds

\* a call that creates the tensor obj and returns it
ReturnsNew(op, shape, raw, obj) ==
    /\ HasRoom
    /\ heap' = [heap EXCEPT ![NewId(heap)] = obj]
    /\ tret' = Outcome(op, shape, 0, Free, "", raw, "return", "", NewId(heap))

\* a call that raises and leaves no tensor behind
Raises(op, shape, arg, raised, raw, err) ==
    /\ heap' = heap
    /\ tret' = Outcome(op, shape, arg, IF arg = 0 THEN Free ELSE heap[arg],
                       raised, raw, "raise", err, 0)

\* DisplacementField(*sizes): __new__ creates the tensor, __init__ checks it
Construct ==
    /\ UNCHANGED notTypeVars
    /\ \E shape \in Shapes :
          IF ShapeError(shape) # "ok"
          THEN Raises("DisplacementField", shape, 0, "", NonTensor, ShapeError(shape))
          ELSE ReturnsNew("DisplacementField", shape, NonTensor, Field(shape))

\* tensor.field_(): in place
FieldInplaceCall ==
    /\ UNCHANGED notTypeVars
    /\ \E o \in Live(heap) :
       \E r \in {FieldInplace(heap[o])} :
          /\ heap' = [heap EXCEPT ![o] = r.obj]
          /\ tret' = Outcome("field_", heap[o].shape, o, heap[o], "", NonTensor,
                             r.kind, r.err, IF r.kind = "return" THEN o ELSE 0)

\* field(data): field_ on data.clone(), or on torch.tensor(data).float()
FieldCopyCall ==
    /\ UNCHANGED notTypeVars
    /\ \E data \in {heap[o] : o \in Live(heap)} \cup PlainTensors :
       \E r \in {FieldInplace(data)} :
          IF r.kind = "raise"
          THEN Raises("field", data.shape, 0, "", NonTensor, r.err)
          ELSE ReturnsNew("field", data.shape, NonTensor, r.obj)

\* field.tensor_(): in place
TensorInplaceCall ==
    /\ UNCHANGED notTypeVars
    /\ \E o \in Live(heap) :
          /\ heap' = [heap EXCEPT ![o] = Tensor(heap[o].shape)]
          /\ tret' = Outcome("tensor_", heap[o].shape, o, heap[o], "", NonTensor,
                             "return", "", o)

\* identity() / zeros(), ones(), rand(): torch.zeros, torch.ones or
\* torch.rand of the shape, behind f_decorated
ZerosOnesRand ==
    /\ UNCHANGED notTypeVars
    /\ \E op \in {"identity", "ones", "rand"}, shape \in Shapes :
       \E r \in {ReturnSubclassType(Tensor(shape))} :
          IF r.kind = "raise"
          THEN Raises(op, shape, 0, "", Tensor(shape), r.err)
          ELSE ReturnsNew(op, shape, Tensor(shape), r.obj)

IsSquare(shape) == shape[Len(shape)] = shape[Len(shape) - 1]

\* rand_in_bounds(): rand(), then _from_superclass if that is no field,
\* then field * 2 - 1 minus its identity_mapping(), behind f_decorated
RandInBounds ==
    /\ UNCHANGED notTypeVars
    /\ \E shape \in Shapes :
       \E rand \in {ReturnSubclassType(Tensor(shape))} :
          IF rand.kind = "raise"
          THEN Raises("rand_in_bounds", shape, 0, rand.err, NonTensor, rand.err)
          ELSE \E conv \in {IF rand.obj.cls # "DisplacementField"
                            THEN FieldInplace(rand.obj)
                            ELSE [kind |-> "return", err |-> "", obj |-> rand.obj]} :
               IF conv.kind = "raise"
               THEN Raises("rand_in_bounds", shape, 0, conv.err, NonTensor, conv.err)
               ELSE IF ~IsSquare(shape)
               THEN Raises("rand_in_bounds", shape, 0, "ValueError: Bad size",
                           NonTensor, "ValueError: Bad size")
               ELSE \E r \in {ReturnSubclassType(conv.obj)} :
                    IF r.kind = "raise"
                    THEN Raises("rand_in_bounds", shape, 0, "", conv.obj, r.err)
                    ELSE ReturnsNew("rand_in_bounds", shape, conv.obj, r.obj)

\* the exceptions a wrapped function may raise itself
OpErrors == {"NotImplementedError", "RuntimeError", "ValueError"}

\* any method wrapped by return_subclass_type: f raises, or returns a tensor
\* it created, a tensor that exists, or a value that is no tensor
WrappedRaises ==
    /\ UNCHANGED notTypeVars
    /\ \E e \in OpErrors : Raises("wrapped", <<>>, 0, e, NonTensor, e)

WrappedReturnsNew ==
    /\ UNCHANGED notTypeVars
    /\ \E raw \in PlainTensors \cup {Field(sh) : sh \in {x \in Shapes : ShapeError(x) = "ok"}} :
       \E r \in {ReturnSubclassType(raw)} :
          IF r.kind = "raise"
          THEN Raises("wrapped", raw.shape, 0, "", raw, r.err)
          ELSE ReturnsNew("wrapped", raw.shape, raw, r.obj)

WrappedReturnsExisting ==
    /\ UNCHANGED notTypeVars
    /\ \E o \in Live(heap) :
       \E r \in {ReturnSubclassType(heap[o])} :
          /\ heap' = [heap EXCEPT ![o] = r.obj]
          /\ tret' = Outcome("wrapped", heap[o].shape, o, heap[o], "", heap[o],
                             r.kind, r.err, IF r.kind = "return" THEN o ELSE 0)

WrappedReturnsOther ==
    /\ UNCHANGED notTypeVars
    /\ \E r \in {ReturnSubclassType(NonTensor)} :
          /\ heap' = heap
          /\ tret' = Outcome("wrapped", <<>>, 0, Free, "", NonTensor, r.kind, r.err, 0)

InitType ==
    /\ heap \in [ObjectIds -> PlainTensors \cup {Free}]
    /\ tret = NoCall
    /\ IdleCache
    /\ self = [ndim |-> 4, f |-> <<>>]
    /\ ret = NoCall

NextType ==
    \/ Construct
    \/ FieldInplaceCall
    \/ FieldCopyCall
    \/ TensorInplaceCall
    \/ ZerosOnesRand
    \/ RandInBounds
    \/ WrappedRaises
    \/ WrappedReturnsNew
    \/ WrappedReturnsExisting
    \/ WrappedReturnsOther

SpecType == InitType /\ [][NextType]_vars

\* ------------------------------------- claims about construction and types

Called == tret.kind # "none"

\* fewer than three dimensions, or axis -3 not of size 2
BadShape(shape) == Len(shape) < 3 \/ shape[Len(shape) - 2] # 2

\* C8: the constructor, tensor.field_() and field(data) raise an
\* invalid-shape ValueError when the tensor has fewer than 3 dimensions or
\* its size on axis -3 is not 2, and return a DisplacementField otherwise;
\* a field_() that fails leaves the tensor's runtime type unchanged
C8_BadShapeRejected ==
    Called /\ tret.op \in {"DisplacementField", "field_", "field"} =>
        IF BadShape(tret.shape)
        THEN /\ tret.kind = "raise"
             /\ tret.err \in ShapeErrors
             /\ tret.op = "field_" => heap[tret.arg] = tret.before
        ELSE /\ tret.kind = "return"
             /\ heap[tret.out] = Field(tret.shape)

C8_Witness ==
    /\ Called
    /\ tret.op = "field_"
    /\ Len(tret.shape) >= 3
    /\ BadShape(tret.shape)
    /\ tret.kind = "raise"
    /\ heap[tret.arg].cls = "Tensor"

\* C9, as stated: identity()/zeros(), ones(), rand() and rand_in_bounds()
\* called for a shape with fewer than 3 dimensions or with axis -3 not of
\* size 2 fail with a shape error, and none of them returns anything but a
\* DisplacementField
C9_FactoriesRejectBadShape ==
    Called /\ tret.op \in {"identity", "ones", "rand", "rand_in_bounds"} =>
        /\ BadShape(tret.shape) => tret.kind = "raise" /\ tret.err \in ShapeErrors
        /\ tret.kind = "return" => heap[tret.out].cls = "DisplacementField"

\* C9, amended: rand_in_bounds() called for such a shape fails with the
\* shape ValueError and returns nothing but a DisplacementField, while
\* identity()/zeros(), ones() and rand() never fail on the shape: they
\* return a DisplacementField when the shape is valid and the plain tensor
\* of the requested shape when it is not
C9_OnlyRandInBoundsRejects ==
    Called =>
        /\ tret.op = "rand_in_bounds" =>
              /\ BadShape(tret.shape) => tret.kind = "raise" /\ tret.err \in ShapeErrors
              /\ tret.kind = "return" => heap[tret.out] = Field(tret.shape)
        /\ tret.op \in {"identity", "ones", "rand"} =>
              /\ tret.kind = "return"
              /\ heap[tret.out] = IF BadShape(tret.shape) THEN Tensor(tret.shape)
                                  ELSE Field(tret.shape)

C9_Witness ==
    /\ Called
    /\ tret.op \in {"identity", "ones", "rand"}
    /\ BadShape(tret.shape)
    /\ tret.kind = "return"
    /\ heap[tret.out].cls = "Tensor"

\* C10: a wrapped operation that returns a plain tensor with at least 3
\* dimensions and size 2 on axis -3 hands the caller a DisplacementField;
\* when the conversion fails the caller gets the operation's own result and
\* no exception; an exception of the operation itself reaches the caller
C10_WrappedResult ==
    Called /\ tret.op \in {"wrapped", "identity", "ones", "rand"} =>
        IF tret.raised # ""
        THEN tret.kind = "raise" /\ tret.err = tret.raised
        ELSE /\ tret.kind = "return"
             /\ tret.raw = NonTensor => tret.out = 0
             /\ tret.raw # NonTensor =>
                   heap[tret.out] = IF tret.raw.cls = "Tensor" /\ ~BadShape(tret.raw.shape)
                                    THEN Field(tret.raw.shape)
                                    ELSE tret.raw

C10_Witness ==
    /\ Called
    /\ tret.op = "wrapped"
    /\ tret.raised = ""
    /\ tret.raw # NonTensor
    /\ tret.raw.cls = "Tensor"
    /\ BadShape(tret.raw.shape)
    /\ tret.kind = "return"
    /\ heap[tret.out] = tret.raw

\* ------------------------------------------- methods of a DisplacementField

MaxBatch == 3

\* the shapes (2, H, W) and (N, 2, H, W) of a field
FieldShapes == {pre \o <<2, h, w>> :
                   pre \in {<<>>} \cup {<<n>> : n \in 1..MaxBatch},
                   h \in DimSizes, w \in DimSizes}

\* shapes (C, H, W) and (N, C, H, W) of a tensor to sample from
InputShapes == {pre \o <<c, h, w>> :
                   pre \in {<<>>} \cup {<<n>> : n \in 1..MaxBatch},
                   c \in 1..2, h \in DimSizes, w \in DimSizes}

\* dir(object): the names return_subclass_type leaves alone
DirObject == {"__init__", "__new__", "__repr__"}

\* the attributes of the class that take part here: whether callable (x and
\* y are properties) and whether flagged by dec_keep_type
Attributes ==
    [name : {"magnitude", "distance", "sample", "__call__", "field_", "field",
             "tensor_", "tensor"}, callable : {TRUE}, keep : {TRUE}]
    \cup [name : {"inverse", "linverse", "rinverse", "__invert__", "up", "down",
                  "compose_with", "multicompose", "mean_nonzero_vector",
                  "__sub__", "__add__", "__init__", "__new__", "__repr__"},
          callable : {TRUE}, keep : {FALSE}]
    \cup [name : {"x", "y"}, callable : {FALSE}, keep : {FALSE}]

Attr(name) == CHOOSE a \in Attributes : a.name = name

\* mutant: the _keep_type flag ignored
IsDecoratedAlways(attr) == attr.name \notin DirObject /\ attr.callable

\* the loop of return_subclass_type over dir(cls): which attributes are
\* replaced by decorator(attr)
IsDecorated(attr) == attr.name \notin DirObject /\ attr.callable /\ ~attr.keep

Returned(obj) == [kind |-> "return", err |-> "", obj |-> obj]

Raised(err) == [kind |-> "raise", err |-> err, obj |-> NonTensor]

\* f_decorated around a function whose outcome is raw
FDecorated(raw) == IF raw.kind = "raise" THEN raw ELSE ReturnSubclassType(raw.obj)

\* getattr(cls, name)(...): the function itself, or f_decorated around it
Invoke(name, raw) == IF IsDecorated(Attr(name)) THEN FDecorated(raw) ELSE raw

\* a shape without its axis -3 (sum(dim=-3)), or with it of size 1 (keepdim)
ReduceAxis3(shape, keepdim) ==
    IF keepdim THEN [shape EXCEPT ![Len(shape) - 2] = 1]
    ELSE SubSeq(shape, 1, Len(shape) - 3) \o SubSeq(shape, Len(shape) - 1, Len(shape))

\* magnitude: self.tensor().pow(2).sum(dim=-3, keepdim=keepdim).sqrt()
MagnitudeBody(fld, keepdim) == Returned(Tensor(ReduceAxis3(fld.shape, keepdim)))

\* distance: (self - other).magnitude(keepdim=keepdim)
DistanceBody(fld, keepdim) ==
    LET diff == Invoke("__sub__", Returned(Tensor(fld.shape)))
    IN  IF diff.kind = "raise" THEN diff
        ELSE IF diff.obj.cls # "DisplacementField" THEN Raised("AttributeError")
        ELSE Invoke("magnitude", MagnitudeBody(diff.obj, keepdim))

\* mutant: an identity field handed back
InverseReturnsIdentity(fld) == Returned(Tensor(fld.shape))

\* inverse, linverse, rinverse
InverseBody(fld) == Raised("NotImplementedError")

\* __invert__: return self.inverse(*args, **kwargs)
InvertBody(fld) == Invoke("inverse", InverseBody(fld))

\* identity_mapping of a tensor, as far as its shape decides the outcome:
\* _get_parameters rejects a shape that is not square
IdentityMappingOf(t) ==
    IF ~IsSquare(t.shape) THEN Raised("ValueError: Bad size")
    ELSE Returned(Tensor(t.shape))

\* ensure_dimensions: unsqueeze(0) up to 4 dimensions
Unsqueezed(shape) == IF Len(shape) < 4 THEN <<1>> \o shape ELSE shape

\* ensure_dimensions, reverse: squeeze(0) down to ndims dimensions
Squeezed(shape, ndims) ==
    IF Len(shape) > ndims /\ shape[1] = 1 THEN Tail(shape) ELSE shape

\* sample, inside ensure_dimensions(ndimensions=4, arg_indices=(1, 0),
\* reverse=True): the identity mapping of self, the check of the input,
\* shape[-2] / (shape[-2] - 1) of the integers of the shape,
\* grid_sample (which needs equal batch sizes), and the cast of the output
\* when the input is a field
SampleBody(fld, input) ==
    LET idm == IdentityMappingOf(fld)
        out == <<Unsqueezed(fld.shape)[1], Unsqueezed(input.shape)[2],
                 fld.shape[Len(fld.shape) - 1], fld.shape[Len(fld.shape)]>>
    IN  IF idm.kind = "raise" THEN idm
        ELSE IF ~IsSquare(input.shape) THEN Raised("NotImplementedError")
        ELSE IF input.shape[Len(input.shape) - 1] = 1 THEN Raised("ZeroDivisionError")
        ELSE IF Unsqueezed(fld.shape)[1] # Unsqueezed(input.shape)[1]
        THEN Raised("RuntimeError")
        ELSE IF input.cls = "DisplacementField"
        THEN LET cast == FieldInplace(Tensor(out))
             IN  IF cast.kind = "raise" THEN Raised(cast.err)
                 ELSE Returned([cast.obj EXCEPT !.shape = Squeezed(out, Len(input.shape))])
        ELSE Returned(Tensor(Squeezed(out, Len(input.shape))))

\* F.interpolate: the spatial sizes scaled, rounded down
Interpolated(shape, num, den) ==
    [shape EXCEPT ![Len(shape) - 1] = (shape[Len(shape) - 1] * num) \div den,
                  ![Len(shape)] = (shape[Len(shape)] * num) \div den]

\* mutant: a field that is not square refused
UpDownSquareOnly(fld, name, scale) ==
    IF ~IsSquare(fld.shape) THEN Raised("NotImplementedError")
    ELSE IF scale = 1 THEN Returned(fld)
    ELSE IF name = "up" THEN Returned(Tensor(Interpolated(fld.shape, scale, 1)))
    ELSE Returned(Tensor(Interpolated(fld.shape, 1, scale)))

\* up and down, inside ensure_dimensions(ndimensions=4, arg_indices=(0),
\* reverse=True)
UpDownBody(fld, name, scale) ==
    IF scale = 1 THEN Returned(fld)
    ELSE IF name = "up" THEN Returned(Tensor(Interpolated(fld.shape, scale, 1)))
    ELSE Returned(Tensor(Interpolated(fld.shape, 1, scale)))

NoInput == [cls |-> "none", shape |-> <<>>]

\* a method, the field it is called on and its arguments
MethodInputs ==
    [fld : {Field(sh) : sh \in FieldShapes}, name : {"magnitude", "distance"},
     keepdim : BOOLEAN, input : {NoInput}, scale : {1}]
    \cup [fld : {Field(sh) : sh \in FieldShapes},
          name : {"inverse", "linverse", "rinverse", "__invert__"},
          keepdim : {FALSE}, input : {NoInput}, scale : {1}]
    \cup [fld : {Field(sh) : sh \in FieldShapes}, name : {"sample"}, keepdim : {FALSE},
          input : {Tensor(sh) : sh \in InputShapes}
                  \cup {Field(sh) : sh \in InputShapes \cap FieldShapes},
          scale : {1}]
    \cup [fld : {Field(sh) : sh \in FieldShapes}, name : {"up", "down"},
          keepdim : {FALSE}, input : {NoInput}, scale : 1..2]

notMethodVars == <<typeVars, cacheVars>>

InitMethod ==
    /\ self \in MethodInputs
    /\ ret = NoCall
    /\ heap = EmptyHeap
    /\ tret = NoCall
    /\ IdleCache

\* field.magnitude(keepdim), field.distance(other, keepdim)
CallKeepType ==
    /\ ret = NoCall
    /\ self.name \in {"magnitude", "distance"}
    /\ UNCHANGED <<self, notMethodVars>>
    /\ ret' = IF self.name = "magnitude"
              THEN Invoke("magnitude", MagnitudeBody(self.fld, self.keepdim))
              ELSE Invoke("distance", DistanceBody(self.fld, self.keepdim))

\* field.inverse(), field.linverse(), field.rinverse(), ~field
CallInverse ==
    /\ ret = NoCall
    /\ self.name \in {"inverse", "linverse", "rinverse", "__invert__"}
    /\ UNCHANGED <<self, notMethodVars>>
    /\ ret' = IF self.name = "__invert__"
              THEN Invoke("__invert__", InvertBody(self.fld))
              ELSE Invoke(self.name, InverseBody(self.fld))

\* field.sample(input)
CallSample ==
    /\ ret = NoCall
    /\ self.name = "sample"
    /\ UNCHANGED <<self, notMethodVars>>
    /\ ret' = Invoke("sample", SampleBody(self.fld, self.input))

\* field.up(scale_factor), field.down(scale_factor)
CallUpDown ==
    /\ ret = NoCall
    /\ self.name \in {"up", "down"}
    /\ UNCHANGED <<self, notMethodVars>>
    /\ ret' = Invoke(self.name, UpDownBody(self.fld, self.name, self.scale))

NextMethod == CallKeepType \/ CallInverse \/ CallSample \/ CallUpDown

SpecMethod == InitMethod /\ [][NextMethod]_vars

\* ----------------------------------------------------- claims about methods

MethodCalled(names) == ret.kind # "none" /\ self.name \in names

\* C11: magnitude() and distance(), flagged with dec_keep_type, are not
\* wrapped: they return a plain tensor for every field, also for a batch of
\* exactly 2 fields whose (2, H, W) result would pass the field shape check
C11_KeepTypeNotPromoted ==
    MethodCalled({"magnitude", "distance"}) =>
        /\ ~IsDecorated(Attr(self.name))
        /\ ret.kind = "return"
        /\ ret.obj = Tensor(ReduceAxis3(self.fld.shape, self.keepdim))

C11_Witness ==
    /\ MethodCalled({"magnitude", "distance"})
    /\ Len(self.fld.shape) = 4
    /\ self.fld.shape[1] = 2
    /\ ~self.keepdim
    /\ ret.kind = "return"
    /\ ret.obj.cls = "Tensor"
    /\ ~BadShape(ret.obj.shape)

\* C12: inverse(), linverse(), rinverse() and ~ fail with
\* NotImplementedError on every field; none returns a field, and the
\* wrapper of return_subclass_type lets the error through
C12_InverseNotImplemented ==
    MethodCalled({"inverse", "linverse", "rinverse", "__invert__"}) =>
        /\ IsDecorated(Attr(self.name))
        /\ ret.kind = "raise"
        /\ ret.err = "NotImplementedError"

C12_Witness ==
    /\ MethodCalled({"__invert__"})
    /\ ret.kind = "raise"
    /\ ret.err = "NotImplementedError"

MaxCalls == 2

CacheSizes == {2, 3}

Dtypes == {"float", "double"}

\* (size, dtype)
CacheKeys == CacheSizes \X Dtypes

\* _create_identity_mapping: the mapping of a key, as created; dirty once a
\* caller has written into it
Fresh(key) == [key |-> key, dirty |-> FALSE]

\* tensor.copy(): a torch.Tensor has clone() and copy_(), no copy()
TensorCopy(t) == Raised("AttributeError")

\* DisplacementField._identities = {}
EmptyDict == [set |-> TRUE, d |-> <<>>]

\* DisplacementField._identities[key] = id
Stored(dict, key, id) ==
    [set |-> TRUE,
     d |-> [k \in DOMAIN dict.d \cup {key} |-> IF k = key THEN id ELSE dict.d[k]]]

\* the call of thread p ends: what it returned or raised
Finished(p, kind, err, out) ==
    [procs[p] EXCEPT !.pc = "idle", !.key = <<>>, !.cache = FALSE, !.Id = 0,
                     !.last = [key |-> procs[p].key, cache |-> procs[p].cache,
                               kind |-> kind, err |-> err, out |-> out,
                               value |-> IF out = 0 THEN NonTensor ELSE tensors[out]]]

notCacheVars == <<voteVars, typeVars>>

InitIdentities ==
    /\ IdleCache
    /\ self = [ndim |-> 4, f |-> <<>>]
    /\ ret = NoCall
    /\ heap = EmptyHeap
    /\ tret = NoCall

\* identity_mapping(size, dtype=dtype, cache=cache) entered: _get_parameters
CallIdentityMapping ==
    /\ UNCHANGED <<notCacheVars, identities, tensors>>
    /\ \E p \in Procs, key \in CacheKeys, cache \in BOOLEAN :
          /\ procs[p].pc = "idle"
          /\ procs[p].calls < MaxCalls
          /\ procs' = [procs EXCEPT ![p] = [@ EXCEPT !.pc = "probe", !.calls = @ + 1,
                                                     !.key = key, !.cache = cache]]

\* try: DisplacementField._identities
ProbeCache ==
    /\ UNCHANGED <<notCacheVars, identities, tensors>>
    /\ \E p \in Procs :
          /\ procs[p].pc = "probe"
          /\ procs' = [procs EXCEPT ![p].pc = IF identities = NoCache THEN "make"
                                              ELSE "lookup"]

\* except AttributeError: DisplacementField._identities = {}
MakeCache ==
    /\ UNCHANGED <<notCacheVars, tensors>>
    /\ \E p \in Procs :
          /\ procs[p].pc = "make"
          /\ identities' = EmptyDict
          /\ procs' = [procs EXCEPT ![p].pc = "lookup"]

\* if (size, dtype) in DisplacementField._identities:
\*     Id = DisplacementField._identities[size, dtype].copy()
LookupCache ==
    /\ UNCHANGED <<notCacheVars, identities>>
    /\ \E p \in Procs :
          /\ procs[p].pc = "lookup"
          /\ IF procs[p].key \in DOMAIN identities.d
             THEN \E c \in {TensorCopy(tensors[identities.d[procs[p].key]])} :
                     IF c.kind = "raise"
                     THEN /\ tensors' = tensors
                          /\ procs' = [procs EXCEPT ![p] = Finished(p, "raise", c.err, 0)]
                     ELSE /\ tensors' = Append(tensors, c.obj)
                          /\ procs' = [procs EXCEPT ![p] = [@ EXCEPT !.pc = "reshape",
                                                                   !.Id = Len(tensors) + 1]]
             ELSE /\ tensors' = tensors
                  /\ procs' = [procs EXCEPT ![p].pc = "create"]

\* else: Id = _create_identity_mapping(size, device, tensor_type)
CreateMapping ==
    /\ UNCHANGED <<notCacheVars, identities>>
    /\ \E p \in Procs :
          /\ procs[p].pc = "create"
          /\ tensors' = Append(tensors, Fresh(procs[p].key))
          /\ procs' = [procs EXCEPT ![p] = [@ EXCEPT !.Id = Len(tensors) + 1,
                                                     !.pc = IF procs[p].cache THEN "publish"
                                                            ELSE "reshape"]]

\* if cache: DisplacementField._identities[size, dtype] = Id.copy()
PublishMapping ==
    /\ UNCHANGED notCacheVars
    /\ \E p \in Procs :
          /\ procs[p].pc = "publish"
          /\ \E c \in {TensorCopy(tensors[procs[p].Id])} :
                IF c.kind = "raise"
                THEN /\ UNCHANGED <<identities, tensors>>
                     /\ procs' = [procs EXCEPT ![p] = Finished(p, "raise", c.err, 0)]
                ELSE /\ tensors' = Append(tensors, c.obj)
                     /\ identities' = Stored(identities, procs[p].key, Len(tensors) + 1)
                     /\ procs' = [procs EXCEPT ![p].pc = "reshape"]

\* Id.expand(...) or Id.view(...), return Id.to(device=device, dtype=dtype):
\* the caller receives the tensor Id, or one that shares its memory
ReturnMapping ==
    /\ UNCHANGED <<notCacheVars, identities, tensors>>
    /\ \E p \in Procs :
          /\ procs[p].pc = "reshape"
          /\ procs' = [procs EXCEPT ![p] = Finished(p, "return", "", procs[p].Id)]

\* a caller writes into the mapping it received
ModifyInPlace ==
    /\ UNCHANGED <<notCacheVars, identities>>
    /\ \E p \in Procs :
          /\ procs[p].last.kind = "return"
          /\ ~tensors[procs[p].last.out].dirty
          /\ tensors' = [tensors EXCEPT ![procs[p].last.out].dirty = TRUE]
          /\ procs' = procs

NextIdentities ==
    \/ CallIdentityMapping
    \/ ProbeCache
    \/ MakeCache
    \/ LookupCache
    \/ CreateMapping
    \/ PublishMapping
    \/ ReturnMapping
    \/ ModifyInPlace

SpecIdentities == InitIdentities /\ [][NextIdentities]_vars

\* ------------------------------------------------- claims about the cache

\* every entry of the cache is the mapping of its key, as created
EntriesFresh ==
    identities # NoCache =>
        \A k \in DOMAIN identities.d : tensors[identities.d[k]] = Fresh(k)

\* C13, as stated: after any sequence of identity_mapping calls, with and
\* without cache=True, and of writes by the callers into the mappings they
\* received, the entry under each key is the freshly computed mapping of
\* that key: a call with cache=True that misses writes the entry and hands
\* out another tensor than the one stored
C13_CacheEntriesImmutable ==
    /\ EntriesFresh
    /\ \A p \in Procs :
          procs[p].last.kind # "none" /\ procs[p].last.cache =>
              /\ procs[p].last.kind = "return"
              /\ identities # NoCache
              /\ procs[p].last.key \in DOMAIN identities.d
              /\ identities.d[procs[p].last.key] # procs[p].last.out

\* C14, as stated: under any interleaving of concurrent identity_mapping
\* calls every call returns the correct identity mapping for its own
\* arguments, and the cache never holds an entry that differs from the
\* correct mapping of its key
C14_ConcurrentCallsCorrect ==
    /\ \A p \in Procs :
          procs[p].last.kind # "none" =>
              /\ procs[p].last.kind = "return"
              /\ procs[p].last.value = Fresh(procs[p].last.key)
    /\ EntriesFresh

\* ------------------------------------------------------ mean_nonzero_vector

MaxStatBatch == 2

MaxPixels == 2

\* displacement vectors of integer magnitude
StatVectors == {<<0, 0>>, <<3, 4>>, <<-3, -4>>, <<0, 4>>}

\* a field (N, 2, H, W): per batch element the vectors of its H * W pixels
StatInputs == UNION {[1..n -> [1..MaxPixels -> StatVectors]] : n \in 1..MaxStatBatch}

\* self.sum(-1).sum(-1): per batch element the sum of its vectors
SumVectors(pixels) ==
    <<SumSeq([i \in 1..Len(pixels) |-> pixels[i][1]]),
      SumSeq([i \in 1..Len(pixels) |-> pixels[i][2]])>>

\* (self.magnitude() > 0).sum(-1).sum(-1): per batch element the number of
\* pixels of nonzero magnitude
CountNonzero(pixels) == Cardinality({i \in 1..Len(pixels) : Magnitude(pixels[i]) > 0})

\* bool(tensor): defined for a tensor of one element only
TruthValue(t) ==
    IF Len(t) # 1 THEN Raised("RuntimeError") ELSE Returned(t[1])

\* mean_nonzero_vector: a tensor (N, 2), its values per batch element
\* <<x, y, den>>, the vector (x / den, y / den)
MeanNonzeroVector(batch) ==
    LET sum == [e \in 1..Len(batch) |-> SumVectors(batch[e])]
        count == [e \in 1..Len(batch) |-> CountNonzero(batch[e])]
        test == TruthValue([e \in 1..Len(count) |-> count[e] = 0])
    IN  IF test.kind = "raise" THEN test
        ELSE IF test.obj
        THEN Returned([cls |-> "Tensor", shape |-> <<Len(batch), 2>>,
                       val |-> [e \in 1..Len(batch) |-> <<sum[e][1], sum[e][2], 1>>]])
        ELSE Returned([cls |-> "Tensor", shape |-> <<Len(batch), 2>>,
                       val |-> [e \in 1..Len(batch) |->
                                   <<sum[e][1], sum[e][2], count[e]>>]])

notStatVars == <<typeVars, cacheVars>>

InitStat ==
    /\ self \in StatInputs
    /\ ret = NoCall
    /\ heap = EmptyHeap
    /\ tret = NoCall
    /\ IdleCache

\* field.mean_nonzero_vector()
CallMeanNonzeroVector ==
    /\ ret = NoCall
    /\ UNCHANGED <<self, notStatVars>>
    /\ ret' = Invoke("mean_nonzero_vector", MeanNonzeroVector(self))

NextStat == CallMeanNonzeroVector

SpecStat == InitStat /\ [][NextStat]_vars

\* C16, as stated: for every batch size N >= 1 mean_nonzero_vector returns
\* for each batch element the sum of its vectors divided by its own count
\* of pixels of nonzero magnitude, and the zero vector for an element
\* without such a pixel
C16_MeanOverNonzeroPixels ==
    ret.kind # "none" =>
        /\ ret.kind = "return"
        /\ \A e \in 1..Len(self) :
              IF CountNonzero(self[e]) = 0
              THEN ret.obj.val[e][1] = 0 /\ ret.obj.val[e][2] = 0
              ELSE /\ ret.obj.val[e][1] * CountNonzero(self[e])
                         = SumVectors(self[e])[1] * ret.obj.val[e][3]
                   /\ ret.obj.val[e][2] * CountNonzero(self[e])
                         = SumVectors(self[e])[2] * ret.obj.val[e][3]

\* -------------------------------------------------------- unit conversions
\*
\* The conversions work pixel by pixel, so the model follows the vector at
\* one pixel (row i, column j) of a square field of width W.  A float is a
\* fraction <<n, d>> in lowest terms with d > 0.

MaxWidth == 3

MaxSize == 3

Frac(n, d) ==
    LET g == Gcd(Abs(n), Abs(d))
    IN  IF d < 0 THEN <<(-n) \div g, (-d) \div g>> ELSE <<n \div g, d \div g>>

\* sums and products are taken over the least common denominator, so that
\* the integers stay small
FAdd(a, b) ==
    LET g == Gcd(a[2], b[2])
    IN  Frac(a[1] * (b[2] \div g) + b[1] * (a[2] \div g), a[2] * (b[2] \div g))

FSub(a, b) == FAdd(a, <<-b[1], b[2]>>)

FMul(a, b) ==
    LET g1 == Gcd(Abs(a[1]), b[2])
        g2 == Gcd(Abs(b[1]), a[2])
    IN  Frac((a[1] \div g1) * (b[1] \div g2), (a[2] \div g2) * (b[2] \div g1))

FDiv(a, b) == FMul(a, Frac(b[2], b[1]))

\* a vector plus or minus a vector, times or over a float
VAdd(v, w) == <<FAdd(v[1], w[1]), FAdd(v[2], w[2])>>

VSub(v, w) == <<FSub(v[1], w[1]), FSub(v[2], w[2])>>

VScale(v, c) == <<FMul(v[1], c), FMul(v[2], c)>>

VOver(v, c) == <<FDiv(v[1], c), FDiv(v[2], c)>>

VPlus(v, c) == <<FAdd(v[1], c), FAdd(v[2], c)>>

\* F.affine_grid of the identity at index k of size pixels: the centres of
\* the border pixels at -1 and +1 (align_corners, the default up to torch
\* 1.2), or the pixel centres of a [-1, 1] image (the default since)
AffineGrid(k, size, align) ==
    IF align THEN (IF size = 1 THEN Frac(-1, 1) ELSE Frac(2 * k - (size - 1), size - 1))
    ELSE Frac(2 * k + 1 - size, size)

\* _create_identity_mapping at (row i, column j): Id *= (size - 1) / size,
\* component 0 along the columns
IdentityMappingAt(i, j, size, align) ==
    VScale(<<AffineGrid(j, size, align), AffineGrid(i, size, align)>>,
           Frac(size - 1, size))

NoSize == 0

\* 'if size is None: size = self.shape', 'if isinstance(size, tuple):
\* size = size[-1]'
SizeOf(size, W) == IF size = NoSize THEN W ELSE size

\* pixels: self * (size / 2)
Pixels(v, size, W) == VScale(v, Frac(SizeOf(size, W), 2))

\* mutant: the size taken for the half size
FromPixelsBySize(v, size, W) == VOver(v, Frac(SizeOf(size, W), 1))

\* from_pixels: self / (size / 2)
FromPixels(v, size, W) == VOver(v, Frac(SizeOf(size, W), 2))

\* mapping: self + self.identity_mapping()
Mapping(v, idm) == VAdd(v, idm)

\* from_mapping: self - self.identity_mapping()
FromMapping(v, idm) == VSub(v, idm)

\* pixel_mapping: (self.mapping() + 1).pixels(size) - .5
PixelMapping(v, idm, size, W) ==
    VPlus(Pixels(VPlus(Mapping(v, idm), Frac(1, 1)), size, W), Frac(-1, 2))

\* from_pixel_mapping: ((self + .5).from_pixels(size) - 1).from_mapping()
FromPixelMapping(v, idm, size, W) ==
    FromMapping(VPlus(FromPixels(VPlus(v, Frac(1, 2)), size, W), Frac(-1, 1)), idm)

UnitValues == {Frac(-1, 1), Frac(0, 1), Frac(1, 2)}

\* a pixel of a square field with its vector, the size argument, and the
\* default of align_corners in the torch at hand
UnitInputs ==
    {[W |-> w, i |-> i, j |-> j, v |-> v, size |-> sz, align |-> al] :
        w \in 1..MaxWidth, i \in 0..(MaxWidth - 1), j \in 0..(MaxWidth - 1),
        v \in UnitValues \X UnitValues, sz \in {NoSize} \cup 1..MaxSize,
        al \in BOOLEAN}

notUnitVars == <<typeVars, cacheVars>>

InitUnits ==
    /\ self \in {u \in UnitInputs : u.i < u.W /\ u.j < u.W}
    /\ ret = NoCall
    /\ heap = EmptyHeap
    /\ tret = NoCall
    /\ IdleCache

\* f.mapping().from_mapping(), f.pixels(s).from_pixels(s) and
\* f.pixel_mapping(s).from_pixel_mapping(s), with what lies in between
ConvertAndBack ==
    /\ ret = NoCall
    /\ UNCHANGED <<self, notUnitVars>>
    /\ \E idm \in {IdentityMappingAt(self.i, self.j, self.W, self.align)} :
       \E m \in {Mapping(self.v, idm)}, px \in {Pixels(self.v, self.size, self.W)},
          pm \in {PixelMapping(self.v, idm, self.size, self.W)} :
          ret' = [kind |-> "return", idm |-> idm,
                  mapping |-> m, pixels |-> px, pixel_mapping |-> pm,
                  from_mapping |-> FromMapping(m, idm),
                  from_pixels |-> FromPixels(px, self.size, self.W),
                  from_pixel_mapping |-> FromPixelMapping(pm, idm, self.size, self.W)]

NextUnits == ConvertAndBack

SpecUnits == InitUnits /\ [][NextUnits]_vars

\* C17: for a square field f and a size s, f.mapping().from_mapping(),
\* f.pixels(s).from_pixels(s) and f.pixel_mapping(s).from_pixel_mapping(s)
\* all give f back, also when s is left out on both sides
C17_ConversionsRoundTrip ==
    ret.kind # "none" =>
        /\ ret.from_mapping = self.v
        /\ ret.from_pixels = self.v
        /\ ret.from_pixel_mapping = self.v

C17_Witness ==
    /\ ret.kind # "none"
    /\ self.size \notin {NoSize, 2, self.W}
    /\ self.v[1] # Frac(0, 1)
    /\ ret.mapping # self.v
    /\ ret.pixels # self.v
    /\ ret.pixel_mapping # self.v
    /\ ret.pixel_mapping # ret.pixels
    /\ ret.from_pixel_mapping = self.v

\* ------------------------------------------------------------- composition
MaxOthers == 2

\* a square field (2, W, W) with its values: val[i * W + j + 1] is the vector
\* (component 0, component 1) at row i and column j
Valued(cls, W, val) == [cls |-> cls, shape |-> <<2, W, W>>, val |-> val]

WidthOf(t) == t.shape[Len(t.shape)]

Shaped(t) == [cls |-> t.cls, shape |-> t.shape]

Zero == Frac(0, 1)

One == Frac(1, 1)

FLess(a, b) == a[1] * b[2] < b[1] * a[2]

\* floor of a float, as an integer
FFloor(a) == IF a[1] >= 0 THEN a[1] \div a[2] ELSE -((a[2] - 1 - a[1]) \div a[2])

\* DisplacementField.identity(): zeros of the shape
Identity(W) == Valued("DisplacementField", W, [k \in 1..(W * W) |-> <<Zero, Zero>>])

\* grid_sample, unnormalising a coordinate of [-1, 1] to pixels
Unnormalize(c, size, align) ==
    IF align THEN FMul(FAdd(c, One), Frac(size - 1, 2))
    ELSE FSub(FMul(FAdd(c, One), Frac(size, 2)), Frac(1, 2))

\* grid_sample, padding_mode 'border': the coordinate clipped to the pixels
ClipCoordinates(a, size) ==
    IF FLess(a, Zero) THEN Zero
    ELSE IF FLess(Frac(size - 1, 1), a) THEN Frac(size - 1, 1)
    ELSE a

\* grid_sample: the value at a corner, zero when the corner is out of bounds
Corner(val, W, i, j) ==
    IF i \in 0..(W - 1) /\ j \in 0..(W - 1) THEN val[i * W + j + 1] ELSE <<Zero, Zero>>

\* grid_sample, mode 'bilinear', of a 2-channel input of width W at the
\* normalised location g = (x, y)
GridSampleAt(val, W, g, padding_mode, align) ==
    \* the pixel coordinates and their integer parts
    LET ux == Unnormalize(g[1], W, align)
        uy == Unnormalize(g[2], W, align)
        ix == IF padding_mode = "border" THEN ClipCoordinates(ux, W) ELSE ux
        iy == IF padding_mode = "border" THEN ClipCoordinates(uy, W) ELSE uy
        x0 == FFloor(ix)
        y0 == FFloor(iy)
        wx1 == FSub(ix, Frac(x0, 1))
        wy1 == FSub(iy, Frac(y0, 1))
        wx0 == FSub(One, wx1)
        wy0 == FSub(One, wy1)
    IN  VAdd(VAdd(VScale(Corner(val, W, y0, x0), FMul(wx0, wy0)),
                  VScale(Corner(val, W, y0, x0 + 1), FMul(wx1, wy0))),
             VAdd(VScale(Corner(val, W, y0 + 1, x0), FMul(wx0, wy1)),
                  VScale(Corner(val, W, y0 + 1, x0 + 1), FMul(wx1, wy1))))

\* sample, the values: field = self + self.identity_mapping(),
\* scaled_field = field * (shape[-2] / (shape[-2] - 1)), F.grid_sample
SampleValues(fld, input, padding_mode, align) ==
    The({AsTuple([k \in 1..(W * W) |->
            GridSampleAt(inval, Win,
                VScale(VAdd(val[k],
                            IdentityMappingAt((k - 1) \div W, (k - 1) % W, W, align)),
                       Frac(Win, Win - 1)),
                padding_mode, align)]) :
         W \in {WidthOf(fld)}, Win \in {WidthOf(input)}, val \in {fld.val},
         inval \in {input.val}})

\* sample: the outcome SampleBody gives for the shapes, with the values
Sample(fld, input, padding_mode, align) ==
    LET raw == SampleBody(Shaped(fld), Shaped(input))
    IN  IF raw.kind = "raise" THEN raw
        ELSE Returned([cls |-> raw.obj.cls, shape |-> raw.obj.shape,
                       val |-> SampleValues(fld, input, padding_mode, align)])

\* getattr(cls, name)(...) of a result with values
InvokeValued(name, raw) ==
    The({IF r.kind = "raise" THEN r
         ELSE Returned([r.obj EXCEPT
                           !.cls = Invoke(name, Returned(Shaped(r.obj))).obj.cls]) :
         r \in {raw}})

\* self + other: the sum as torch.Tensor.__add__ makes it
Add(fld, other) ==
    The({Returned([cls |-> "Tensor", shape |-> fld.shape,
                   val |-> AsTuple([k \in 1..Len(a) |-> VAdd(a[k], b[k])])]) :
         a \in {fld.val}, b \in {other.val}})

\* compose_with: return self + self.sample(other, padding_mode='border')
ComposeWithBody(fld, other, align) ==
    The({IF sampled.kind = "raise" THEN sampled
         ELSE InvokeValued("__add__", Add(fld, sampled.obj)) :
         sampled \in {InvokeValued("sample", Sample(fld, other, "border", align))}})

ComposeWith(fld, other, align) ==
    InvokeValued("compose_with", ComposeWithBody(fld, other, align))

\* mutant: the argument sampled whatever its type
CallAlwaysSample(fld, x, align) ==
    InvokeValued("__call__", InvokeValued("sample", Sample(fld, x, "zeros", align)))

\* __call__: compose_with for a field, sample for another tensor
Call(fld, x, align) ==
    InvokeValued("__call__",
        IF x.cls = "DisplacementField" THEN ComposeWith(fld, x, align)
        ELSE InvokeValued("sample", Sample(fld, x, "zeros", align)))

\* multicompose, the loop 'for g in others: f = (f)(g)': the outcomes of
\* its rounds, from f = self on, up to the first that raises
RECURSIVE MulticomposeLoop(_, _, _)
MulticomposeLoop(done, others, align) ==
    The({IF others = <<>> \/ f.kind = "raise" THEN done
         ELSE The({MulticomposeLoop(Append(done, next), Tail(others), align) :
                   next \in {Call(f.obj, Head(others), align)}}) :
         f \in {done[Len(done)]}})

\* multicompose: return f
Multicompose(fld, others, align) ==
    The({[out |-> InvokeValued("multicompose", rounds[Len(rounds)]),
          rounds |-> rounds] :
         rounds \in {MulticomposeLoop(<<Returned(fld)>>, others, align)}})

\* a field that is base everywhere but for hot at entry k
HotField(W, base, k, hot) ==
    Valued("DisplacementField", W,
           AsTuple([e \in 1..(W * W) |-> IF e = k THEN hot ELSE base]))

\* the fields composed with the identity
ComposeFields(W) ==
    {HotField(W, b, k, h) : b \in UnitValues \X UnitValues, k \in 1..(W * W),
                            h \in UnitValues \X UnitValues}

\* the fields composed with one another
MultiFields(W) ==
    {HotField(W, b, k, <<Frac(-1, 1), Frac(1, 2)>>) :
        b \in {<<Zero, Zero>>, <<Frac(1, 2), Zero>>}, k \in {1, W * W}}

ComposeInputs ==
    UNION {[name : {"compose_with"}, fld : ComposeFields(W), others : {<<>>},
            align : BOOLEAN] : W \in 1..MaxWidth}
    \cup UNION {[name : {"multicompose"}, fld : MultiFields(W),
                 others : SeqsUpTo(MultiFields(W), MaxOthers),
                 align : BOOLEAN] : W \in 1..MaxWidth}

notComposeVars == <<typeVars, cacheVars>>

InitCompose ==
    /\ self \in ComposeInputs
    /\ ret = NoCall
    /\ heap = EmptyHeap
    /\ tret = NoCall
    /\ IdleCache

\* identity().compose_with(f) and f.compose_with(identity())
CallComposeWith ==
    /\ ret = NoCall
    /\ self.name = "compose_with"
    /\ UNCHANGED <<self, notComposeVars>>
    /\ ret' = [kind |-> "compose",
               left |-> ComposeWith(Identity(WidthOf(self.fld)), self.fld, self.align),
               right |-> ComposeWith(self.fld, Identity(WidthOf(self.fld)), self.align)]

\* f0.multicompose(f1, ..., fn)
CallMulticompose ==
    /\ ret = NoCall
    /\ self.name = "multicompose"
    /\ UNCHANGED <<self, notComposeVars>>
    /\ \E m \in {Multicompose(self.fld, self.others, self.align)} :
          ret' = [kind |-> "multicompose", out |-> m.out, rounds |-> m.rounds]

NextCompose == CallComposeWith \/ CallMulticompose

SpecCompose == InitCompose /\ [][NextCompose]_vars

\* C18: the all-zero field is a two-sided identity of compose_with: for any
\* square field f, identity().compose_with(f) == f and
\* f.compose_with(identity()) == f
C18_IdentityTwoSided ==
    ret.kind = "compose" =>
        /\ ret.left = Returned(self.fld)
        /\ ret.right = Returned(self.fld)

\* (((f0.compose_with(f1)).compose_with(f2)) ... ).compose_with(fn)
RECURSIVE LeftFold(_, _, _)
LeftFold(fld, others, align) ==
    IF others = <<>> THEN Returned(fld)
    ELSE The({IF inner.kind = "raise" THEN inner
              ELSE ComposeWith(inner.obj, others[Len(others)], align) :
              inner \in {LeftFold(fld, SubSeq(others, 1, Len(others) - 1), align)}})

Reversed(s) == [k \in 1..Len(s) |-> s[Len(s) + 1 - k]]

\* C19: f0.multicompose(f1, ..., fn) is the left fold of compose_with over
\* its arguments in the order given, every intermediate result is a
\* DisplacementField, and with no other fields it returns f0 itself
C19_MulticomposeLeftFold ==
    ret.kind = "multicompose" =>
        /\ ret.out = LeftFold(self.fld, self.others, self.align)
        /\ \A k \in 1..Len(ret.rounds) :
              ret.rounds[k].kind = "return" => ret.rounds[k].obj.cls = "DisplacementField"
        /\ (self.others = <<>> => ret.out = Returned(self.fld))

C19_Witness ==
    /\ ret.kind = "multicompose"
    /\ Len(self.others) = MaxOthers
    /\ Len(ret.rounds) = MaxOthers + 1
    /\ ret.out.kind = "return"
    /\ ret.out.obj.cls = "DisplacementField"
    /\ ret.out # ret.rounds[2]
    /\ ret.out # LeftFold(self.fld, Reversed(self.others), self.align)

\* ------------------------------------------- the chunk loop of calc_aligned_img
MaxChunks == 5

MaxRadius == 2

MaxRestart == 2

chunk_size == 1024

super_chunk_len == 15

\* the overlap handed to a.get_chunk_grid(cm, bbox, mip, 0, rows, pad)
chunk_grid_overlap == 0

\* --pad
Pads == {0, 1, 2048}

\* the width of the region each chunk of the grid is to produce
Spans == {chunk_size, chunk_size * super_chunk_len}

\* get_chunk_grid along the axis of the sequence: n chunks over a region of
\* width n * span, each widened by the padding and, towards a neighbour, by
\* the overlap
GetChunkGrid(n, span, overlap, pad) ==
    [i \in 1..n |->
        [lo |-> (i - 1) * span - pad - (IF i > 1 THEN overlap ELSE 0),
         hi |-> i * span + pad + (IF i < n THEN overlap ELSE 0)]]

\* crop_chunk along that axis: the chunk without its two margins
CropChunk(chunk, amounts) == [lo |-> chunk.lo + amounts[1], hi |-> chunk.hi - amounts[2]]

\* copy_range = full_range[overlap-1:overlap] of range(block_size + overlap),
\* then [r for r in copy_range if r >= args.restart]
CopyRange(overlap, restart) == IF overlap - 1 >= restart THEN <<overlap - 1>> ELSE <<>>

\* mutant: no branch for a grid of one chunk
CropsWithoutSingle(i, n) ==
    IF i = 0 THEN [head_crop |-> FALSE, end_crop |-> TRUE]
    ELSE IF i = n - 1 THEN [head_crop |-> TRUE, end_crop |-> FALSE]
    ELSE [head_crop |-> TRUE, end_crop |-> TRUE]

\* head_crop and end_crop of chunk i of a grid of n chunks
Crops(i, n) ==
    IF n = 1 THEN [head_crop |-> FALSE, end_crop |-> FALSE]
    ELSE IF i = 0 THEN [head_crop |-> FALSE, end_crop |-> TRUE]
    ELSE IF i = n - 1 THEN [head_crop |-> TRUE, end_crop |-> FALSE]
    ELSE [head_crop |-> TRUE, end_crop |-> TRUE]

\* the four amounts handed to a.crop_chunk(chunk, mip, ...)
CropChunkArgs(head_crop, end_crop, pad) ==
    LET far == chunk_size * (super_chunk_len - 1) + pad
    IN  IF ~head_crop /\ end_crop THEN <<pad, far, pad, pad>>
        ELSE IF head_crop /\ end_crop THEN <<far, far, pad, pad>>
        ELSE IF head_crop /\ ~end_crop THEN <<far, pad, pad, pad>>
        ELSE <<pad, pad, pad, pad>>

\* len(chunk_grid), the width per chunk, --pad, --tgt_radius and --restart
ChunkInputs == [n : 0..MaxChunks, span : Spans, pad : Pads, tgt_radius : 1..MaxRadius,
                restart : 0..MaxRestart]

notChunkVars == <<typeVars, cacheVars>>

InitChunks ==
    /\ self \in ChunkInputs
    /\ ret = NoCall
    /\ heap = EmptyHeap
    /\ tret = NoCall
    /\ IdleCache

\* for i in range(len(chunk_grid)): the loop entered
EnterChunkLoop ==
    /\ ret = NoCall
    /\ UNCHANGED <<self, notChunkVars>>
    /\ ret' = [kind |-> "loop", err |-> "", i |-> 0, sections |-> <<>>]

\* one round of the loop: the flags, final_chunk, and
\* a.get_aligned_section(src, block_start, copy_range[0], ..., chunk, ...,
\* head_crop, end_crop, final_chunk)
ProcessChunk ==
    /\ ret.kind = "loop"
    /\ ret.i < self.n
    /\ UNCHANGED <<self, notChunkVars>>
    /\ \E crops \in {Crops(ret.i, self.n)},
          chunk \in {GetChunkGrid(self.n, self.span, chunk_grid_overlap, self.pad)[ret.i + 1]},
          copy_range \in {CopyRange(self.tgt_radius, self.restart)} :
          IF copy_range = <<>>
          THEN ret' = [ret EXCEPT !.kind = "raise", !.err = "IndexError"]
          ELSE ret' = [ret EXCEPT
                          !.i = ret.i + 1,
                          !.sections = Append(ret.sections,
                              [chunk |-> ret.i, z |-> copy_range[1],
                               head_crop |-> crops.head_crop,
                               end_crop |-> crops.end_crop,
                               amounts |-> CropChunkArgs(crops.head_crop,
                                               crops.end_crop, self.pad),
                               final_chunk |-> CropChunk(chunk,
                                   CropChunkArgs(crops.head_crop, crops.end_crop,
                                                 self.pad))])]

\* the loop left after the last chunk
LeaveChunkLoop ==
    /\ ret.kind = "loop"
    /\ ret.i = self.n
    /\ UNCHANGED <<self, notChunkVars>>
    /\ ret' = [ret EXCEPT !.kind = "done"]

NextChunks == EnterChunkLoop \/ ProcessChunk \/ LeaveChunkLoop

SpecChunks == InitChunks /\ [][NextChunks]_vars

\* C20: in a chunk grid of n >= 1 tiles visited in order i = 0..n-1, each
\* tile is processed exactly once with head_crop true exactly when i > 0 and
\* end_crop true exactly when i < n-1; a grid of one tile has both flags false
C20_CropFlags ==
    ret.kind \in {"loop", "raise", "done"} =>
        /\ \A k \in 1..Len(ret.sections) :
              /\ ret.sections[k].chunk = k - 1
              /\ ret.sections[k].head_crop <=> (k - 1 > 0)
              /\ ret.sections[k].end_crop <=> (k - 1 < self.n - 1)
        /\ (ret.kind = "done" => Len(ret.sections) = self.n)
        /\ (self.n = 1 =>
               \A k \in 1..Len(ret.sections) :
                  ~ret.sections[k].head_crop /\ ~ret.sections[k].end_crop)

C20_Witness ==
    /\ ret.kind = "done"
    /\ self.n >= 3
    /\ ret.sections[1].end_crop /\ ~ret.sections[1].head_crop
    /\ ret.sections[2].end_crop /\ ret.sections[2].head_crop
    /\ ret.sections[self.n].head_crop /\ ~ret.sections[self.n].end_crop

\* C21: for every tile the crop margin on a side shared with a neighbour
\* (the head side when head_crop, the end side when end_crop) is the overlap
\* configured for the chunk grid plus the padding; a side without neighbour
\* and the two margins of the other axis are cropped by the padding only
C21_SeamMargins ==
    ret.kind \in {"loop", "raise", "done"} =>
        \A k \in 1..Len(ret.sections) :
            LET s == ret.sections[k]
            IN  /\ s.amounts[1] = (IF s.head_crop THEN chunk_grid_overlap + self.pad
                                   ELSE self.pad)
                /\ s.amounts[2] = (IF s.end_crop THEN chunk_grid_overlap + self.pad
                                   ELSE self.pad)
                /\ s.amounts[3] = self.pad
                /\ s.amounts[4] = self.pad

\* C22: the post-crop outputs of the tiles cover the region exactly: they
\* start at its first position, end at its last, and each begins where the
\* one before it ends
C22_ExactCover ==
    (ret.kind = "done" /\ self.n >= 1) =>
        /\ ret.sections[1].final_chunk.lo = 0
        /\ ret.sections[self.n].final_chunk.hi = self.n * self.span
        /\ \A k \in 1..self.n : ret.sections[k].final_chunk.lo < ret.sections[k].final_chunk.hi
        /\ \A k \in 1..(self.n - 1) :
              ret.sections[k].final_chunk.hi = ret.sections[k + 1].final_chunk.lo

\* ------------------------------------------------- serial_alignment_no_vv
MaxSections == 5

MaxZStart == 2

\* range(start, stop)
PyRange(start, stop) == [k \in 1..MaxOf({stop - start, 0}) |-> start + k - 1]

\* s[from:to] for 0 <= from <= to
Slice(s, from, to) == SubSeq(s, MinOf({from, Len(s)}) + 1, MinOf({to, Len(s)}))

\* mutant: the two cases of --align_start exchanged
SerialRangesExchanged(z_range, align_start) ==
    IF ~align_start
    THEN [copy_range |-> Slice(z_range, 0, 1),
          align_range |-> Slice(z_range, 1, Len(z_range))]
    ELSE [copy_range |-> Slice(z_range, 0, 3),
          align_range |-> Slice(z_range, 3, Len(z_range))]

\* copy_range and align_range
SerialRanges(z_range, align_start) ==
    IF align_start
    THEN [copy_range |-> Slice(z_range, 0, 1),
          align_range |-> Slice(z_range, 1, Len(z_range))]
    ELSE [copy_range |-> Slice(z_range, 0, 3),
          align_range |-> Slice(z_range, 3, Len(z_range))]

\* args.bbox_start[2], args.bbox_stop[2] and --align_start
SerialInputs == [z_start : 0..MaxZStart, z_stop : 0..(MaxZStart + MaxSections),
                 align_start : BOOLEAN]

notSerialVars == <<typeVars, cacheVars>>

InitSerial ==
    /\ self \in {in \in SerialInputs : in.z_stop - in.z_start <= MaxSections}
    /\ ret = NoCall
    /\ heap = EmptyHeap
    /\ tret = NoCall
    /\ IdleCache

\* z_range, copy_range and align_range compiled
CompileRanges ==
    /\ ret = NoCall
    /\ UNCHANGED <<self, notSerialVars>>
    /\ \E r \in {SerialRanges(PyRange(self.z_start, self.z_stop), self.align_start)} :
          ret' = [kind |-> "serial", copy_range |-> r.copy_range,
                  align_range |-> r.align_range, copied |-> 0, aligned |-> 0,
                  done |-> <<>>]

\* for z in copy_range: a.copy_section(z, ...), a.downsample(...)
CopySection ==
    /\ ret.kind = "serial"
    /\ ret.copied < Len(ret.copy_range)
    /\ UNCHANGED <<self, notSerialVars>>
    /\ ret' = [ret EXCEPT
                  !.copied = ret.copied + 1,
                  !.done = Append(ret.done,
                      [op |-> "copy", z |-> ret.copy_range[ret.copied + 1],
                       tgt_z |-> ret.copy_range[ret.copied + 1]])]

\* for z in align_range: compute_section_pair_residuals(z, z-1, bbox),
\* render_section_all_mips(z, ...)
AlignSection ==
    /\ ret.kind = "serial"
    /\ ret.copied = Len(ret.copy_range)
    /\ ret.aligned < Len(ret.align_range)
    /\ UNCHANGED <<self, notSerialVars>>
    /\ ret' = [ret EXCEPT
                  !.aligned = ret.aligned + 1,
                  !.done = Append(ret.done,
                      [op |-> "align", z |-> ret.align_range[ret.aligned + 1],
                       tgt_z |-> ret.align_range[ret.aligned + 1] - 1])]

\* both loops exhausted
EndSerial ==
    /\ ret.kind = "serial"
    /\ ret.copied = Len(ret.copy_range)
    /\ ret.aligned = Len(ret.align_range)
    /\ UNCHANGED <<self, notSerialVars>>
    /\ ret' = [ret EXCEPT !.kind = "end"]

NextSerial == CompileRanges \/ CopySection \/ AlignSection \/ EndSerial

SpecSerial == InitSerial /\ [][NextSerial]_vars

\* C23: every section of z_range is handled exactly once in ascending z
\* order: without --align_start the first three sections are copied and every
\* later section z is aligned to z-1, with --align_start only the first is
\* copied; whenever a section z is aligned, z-1 was copied or aligned before
C23_SerialOrder ==
    ret.kind \in {"serial", "end"} =>
        /\ \A k \in 1..Len(ret.done) :
              /\ ret.done[k].z = self.z_start + k - 1
              /\ ret.done[k].z < self.z_stop
              /\ ret.done[k].op = (IF k <= (IF self.align_start THEN 1 ELSE 3)
                                   THEN "copy" ELSE "align")
              /\ ret.done[k].op = "align" =>
                    /\ ret.done[k].tgt_z = ret.done[k].z - 1
                    /\ \E j \in 1..(k - 1) : ret.done[j].z = ret.done[k].tgt_z
        /\ (ret.kind = "end" => Len(ret.done) = MaxOf({self.z_stop - self.z_start, 0}))

C23_Witness ==
    /\ ret.kind = "end"
    /\ ~self.align_start
    /\ self.z_start > 0
    /\ Len(ret.done) = MaxSections
    /\ ret.done[3].op = "copy"
    /\ ret.done[4].op = "align"

\* ------------------------------------------------------------ ModelArchive
MaxArchiveCalls == 2

\* state_vars: the entries the methods read and write (iteration None: "none")
StateVars == [lr : {1}, wd : {0}, epoch : 0..1, iteration : {"none", "0"},
              start_lr : {2}, gamma : 1..2, gamma_step : {1}]

\* the archive on disk: how often the weights, optimizer, prand and
\* state_vars.json were written and what state_vars.json holds, the lines of
\* loss.csv, whether plot.png exists, the checkpoints and debug directories
Disks == [saves : {0}, state_vars : StateVars, loss : 0..2, plot : {FALSE},
          checkpoints : {{}}, debug : {{}}]

NoDirectory == <<>>

\* an archive opened by ModelArchive(name, readonly): what _load leaves
Archives ==
    {[readonly |-> ro, state_vars |-> d.state_vars, disk |-> d,
      current_debug_directory |-> NoDirectory, calls |-> 0] :
        ro \in BOOLEAN, d \in Disks}

\* the outcome of a method: op, the exception raised ("" for none), and the
\* archive as it was before the call
Call_(op, err, before) == [kind |-> "archive", op |-> op, err |-> err, before |-> before]

Counted(a) == [a EXCEPT !.calls = a.calls + 1]

\* save, after its check of readonly
Saved(a) == [a EXCEPT !.disk.saves = a.disk.saves + 1, !.disk.state_vars = a.state_vars]

\* the name of the checkpoint file
CheckpointName(epoch, iteration) ==
    IF epoch = "none" THEN <<"init">>
    ELSE IF iteration = "none" THEN <<"e", epoch>>
    ELSE <<"e", epoch, "t", iteration>>

\* the name of the debug directory
DebugDirname(sv) ==
    IF sv.iteration # "none" THEN <<"e", sv.epoch, "t", sv.iteration>>
    ELSE <<"e", sv.epoch, "val">>

notArchiveVars == <<typeVars, cacheVars>>

InitArchive ==
    /\ self \in Archives
    /\ ret = NoCall
    /\ heap = EmptyHeap
    /\ tret = NoCall
    /\ IdleCache

CanCall == self.calls < MaxArchiveCalls

\* archive.save()
Save ==
    /\ CanCall
    /\ UNCHANGED notArchiveVars
    /\ IF self.readonly
       THEN self' = Counted(self) /\ ret' = Call_("save", "ReadOnlyError", self)
       ELSE self' = Counted(Saved(self)) /\ ret' = Call_("save", "", self)

\* archive.create_checkpoint(epoch, iteration, save)
CreateCheckpoint ==
    /\ CanCall
    /\ UNCHANGED notArchiveVars
    /\ \E epoch \in {"none", "0"}, iteration \in {"none", "0"}, save \in BOOLEAN :
          IF self.readonly
          THEN self' = Counted(self) /\ ret' = Call_("create_checkpoint", "ReadOnlyError", self)
          ELSE \E a \in {IF save THEN Saved(self) ELSE self} :
                  /\ self' = Counted([a EXCEPT !.disk.checkpoints =
                                 a.disk.checkpoints \cup {CheckpointName(epoch, iteration)}])
                  /\ ret' = Call_("create_checkpoint", "", self)

\* archive.new_debug_directory()
NewDebugDirectory ==
    /\ CanCall
    /\ UNCHANGED notArchiveVars
    /\ \E dirname \in {DebugDirname(self.state_vars)} :
          IF self.readonly
          THEN self' = Counted(self) /\ ret' = Call_("new_debug_directory", "ReadOnlyError", self)
          ELSE IF dirname \in self.disk.debug
          THEN self' = Counted(self) /\ ret' = Call_("new_debug_directory", "FileExistsError", self)
          ELSE /\ self' = Counted([self EXCEPT !.disk.debug = self.disk.debug \cup {dirname},
                                               !.current_debug_directory = dirname])
               /\ ret' = Call_("new_debug_directory", "", self)

\* archive.log(values) and archive.set_log_titles(log_titles), which is
\* self.log(log_titles, printout=False)
Log ==
    /\ CanCall
    /\ UNCHANGED notArchiveVars
    /\ \E op \in {"log", "set_log_titles"} :
          IF self.readonly
          THEN self' = Counted(self) /\ ret' = Call_(op, "ReadOnlyError", self)
          ELSE /\ self' = Counted([self EXCEPT !.disk.loss = self.disk.loss + 1])
               /\ ret' = Call_(op, "", self)

\* archive.set_optimizer_params(learning_rate, weight_decay)
SetOptimizerParams ==
    /\ CanCall
    /\ UNCHANGED notArchiveVars
    /\ \E learning_rate \in 2..3, weight_decay \in 0..1 :
          IF self.readonly
          THEN self' = Counted(self) /\ ret' = Call_("set_optimizer_params", "ReadOnlyError", self)
          ELSE /\ self' = Counted([self EXCEPT !.state_vars.lr = learning_rate,
                                               !.state_vars.wd = weight_decay])
               /\ ret' = Call_("set_optimizer_params", "", self)

\* archive.adjust_learning_rate()
AdjustLearningRate ==
    /\ CanCall
    /\ UNCHANGED notArchiveVars
    /\ IF self.readonly
       THEN self' = Counted(self) /\ ret' = Call_("adjust_learning_rate", "ReadOnlyError", self)
       ELSE /\ self' = Counted([self EXCEPT !.state_vars.lr =
                           self.state_vars.start_lr
                           * Pow(self.state_vars.gamma,
                                 self.state_vars.epoch \div self.state_vars.gamma_step)])
            /\ ret' = Call_("adjust_learning_rate", "", self)

\* archive.visualize_loss(*columns): read_csv of loss.csv (an empty file
\* raises), nothing to do without data rows, else plot.png written and
\* copied to the current debug directory (cp to None fails or not)
VisualizeLoss ==
    /\ CanCall
    /\ UNCHANGED notArchiveVars
    /\ IF self.disk.loss = 0
       THEN self' = Counted(self) /\ ret' = Call_("visualize_loss", "EmptyDataError", self)
       ELSE IF self.disk.loss = 1
       THEN self' = Counted(self) /\ ret' = Call_("visualize_loss", "", self)
       ELSE /\ self' = Counted([self EXCEPT !.disk.plot = TRUE])
            /\ \E err \in (IF self.current_debug_directory = NoDirectory
                           THEN {"", "TypeError"} ELSE {""}) :
                  ret' = Call_("visualize_loss", err, self)

NextArchive ==
    \/ Save
    \/ CreateCheckpoint
    \/ NewDebugDirectory
    \/ Log
    \/ SetOptimizerParams
    \/ AdjustLearningRate
    \/ VisualizeLoss

SpecArchive == InitArchive /\ [][NextArchive]_vars

\* C24: on an archive opened with readonly=True, after any sequence of
\* calls, save, create_checkpoint, new_debug_directory, log, set_log_titles,
\* set_optimizer_params, adjust_learning_rate and visualize_loss raise
\* ReadOnlyError and leave the files and state_vars of the archive unchanged
C24_ReadOnlyRefuses ==
    (ret.kind = "archive" /\ self.readonly) =>
        /\ ret.err = "ReadOnlyError"
        /\ self.disk = ret.before.disk
        /\ self.state_vars = ret.before.state_vars

\* --------------------------------------------- vote() on a reordered ensemble
\* self.vote(softmin_temp, blur_sigma) of the ensemble f, from
\* 'n, two, *shape = self.shape' on: the outcome with the locals
VoteOf(f, temp, sigma) ==
    IF Len(f) % 2 = 0 THEN [kind |-> "raise", err |-> "ValueError: even number"]
    ELSE IF Len(f) = 1 THEN [kind |-> "return", same |-> TRUE, out |-> ValueOf(f[1])]
    ELSE The({The({The({The({
             [kind |-> "return", same |-> FALSE,
              out |-> WeightedSum(f, field_weights),
              mtuples |-> mtuples, field_weights |-> field_weights] :
             field_weights \in {NormalizeWeights(AssignWeights(Len(f), mtuples,
                                    Softmin(mavg, temp)))}}) :
             mavg \in {AsTuple([i \in 1..Len(mtuples) |-> MtupleAvg(dists, mtuples[i])])}}) :
             mtuples \in {Combinations(Range(Len(f)), Majority(Len(f)))}}) :
             dists \in {Dists(Blurred(f, sigma))}})

\* the ensemble with the fields at positions k and k + 1 exchanged
Exchanged(f, k) ==
    AsTuple([i \in 1..Len(f) |-> IF i = k THEN f[k + 1] ELSE IF i = k + 1 THEN f[k] ELSE f[i]])

\* the fields of the reordered ensembles
PermFields == {f \in Fields : f.v # LatticeVec}

\* an ensemble of odd size, the neighbours to exchange, and the arguments
PermInputs ==
    {[f |-> f, k |-> k, temp |-> t, sigma |-> sg] :
        f \in {g \in SeqsUpTo(PermFields, MaxN) : Len(g) % 2 = 1 /\ Len(g) >= 3},
        k \in 1..(MaxN - 1), t \in SoftminTemps, sg \in {None, <<1>>}}

notPermVars == <<typeVars, cacheVars>>

InitPerm ==
    /\ self \in {in \in PermInputs : in.k < Len(in.f)}
    /\ ret = NoCall
    /\ heap = EmptyHeap
    /\ tret = NoCall
    /\ IdleCache

\* the ensemble voted as given and with two neighbours exchanged
VoteBothOrders ==
    /\ ret = NoCall
    /\ UNCHANGED <<self, notPermVars>>
    /\ ret' = [kind |-> "votes",
               given |-> VoteOf(self.f, self.temp, self.sigma),
               exchanged |-> VoteOf(Exchanged(self.f, self.k), self.temp, self.sigma)]

NextPerm == VoteBothOrders

SpecPerm == InitPerm /\ [][NextPerm]_vars

\* C25: vote() is invariant under reordering of the ensemble: for odd N >= 3
\* the consensus field is the same with two neighbouring fields exchanged
\* (the exchanges generate every permutation), and every field belongs to
\* the same number C(N-1, m-1) of m-subsets
C25_OrderInvariant ==
    ret.kind = "votes" =>
        /\ ret.given.kind = "return" /\ ret.exchanged.kind = "return"
        /\ ret.given.out.den > 0 /\ ret.exchanged.out.den > 0
        /\ ret.given.out.x * ret.exchanged.out.den = ret.exchanged.out.x * ret.given.out.den
        /\ ret.given.out.y * ret.exchanged.out.den = ret.exchanged.out.y * ret.given.out.den
        /\ \A j \in 0..(Len(self.f) - 1) :
              Cardinality({t \in 1..Len(ret.given.mtuples) :
                              j \in SeqToSet(ret.given.mtuples[t])})
                  = Binomial(Len(self.f) - 1, Majority(Len(self.f)) - 1)

C25_Witness ==
    /\ ret.kind = "votes"
    /\ Len(self.f) = 5
    /\ self.f[self.k] # self.f[self.k + 1]
    /\ ret.given.field_weights.num # ret.exchanged.field_weights.num
    /\ \E i, j \in 1..5 : ret.given.field_weights.num[i] # ret.given.field_weights.num[j]
    /\ ret.given.out.x # 0

\* ------------------------------------- identity_mapping, one call at a time

MaxLookups == 3

Devices == {"cpu", "cuda"}

\* the size argument: an int, or a shape (N, 2, size, size)
SizeArgs == {<<>>} \cup {<<n>> : n \in 1..MaxBatch}

IdentityArgs ==
    [key : CacheKeys, batch : SizeArgs, device : Devices, cache : BOOLEAN]

\* _get_parameters: orig_shape and batch_dim of the size argument
GetParameters(args) ==
    [shape |-> IF args.batch = <<>> THEN <<1, 2, args.key[1], args.key[1]>>
               ELSE <<args.batch[1], 2, args.key[1], args.key[1]>>,
     batch_dim |-> IF args.batch = <<>> THEN 1 ELSE args.batch[1],
     size |-> args.key[1],
     dtype |-> args.key[2],
     device |-> args.device]

\* _create_identity_mapping(size, device, tensor_type): the mapping of
\* shape (1, 2, size, size) on the device of the call
CreateIdentityMapping(params) ==
    [key |-> <<params.size, params.dtype>>, dirty |-> FALSE,
     shape |-> <<1, 2, params.size, params.size>>, device |-> params.device]

\* Id.expand(batch_dim, *orig_shape[1:]) or Id.view(orig_shape), then
\* Id.to(device=device, dtype=dtype)
ReshapeAndMove(Id, params) ==
    [Id EXCEPT !.shape = IF params.batch_dim > 1
                         THEN <<params.batch_dim>> \o Tail(params.shape)
                         ELSE params.shape,
               !.device = params.device]

\* identity_mapping(size, device, dtype, cache) on the cache dict: the
\* outcome of the call and the cache it leaves
IdentityMapping(args, dict) ==
    LET params == GetParameters(args)
        cache0 == IF dict = NoCache THEN EmptyDict ELSE dict
        key == <<params.size, params.dtype>>
        hit == key \in DOMAIN cache0.d
        made == CreateIdentityMapping(params)
        copied == IF hit THEN TensorCopy(cache0.d[key]) ELSE TensorCopy(made)
    IN  IF hit
        THEN IF copied.kind = "raise"
             THEN [kind |-> "raise", err |-> copied.err, value |-> NonTensor,
                   hit |-> TRUE, dict |-> cache0]
             ELSE [kind |-> "return", err |-> "",
                   value |-> ReshapeAndMove(copied.obj, params),
                   hit |-> TRUE, dict |-> cache0]
        ELSE IF args.cache /\ copied.kind = "raise"
        THEN [kind |-> "raise", err |-> copied.err, value |-> NonTensor,
              hit |-> FALSE, dict |-> cache0]
        ELSE [kind |-> "return", err |-> "",
              value |-> ReshapeAndMove(made, params), hit |-> FALSE,
              dict |-> IF args.cache THEN Stored(cache0, key, copied.obj)
                       ELSE cache0]

notLookupVars == <<typeVars, tensors, procs>>

InitLookups ==
    /\ self = [calls |-> 0]
    /\ ret = NoCall
    /\ heap = EmptyHeap
    /\ tret = NoCall
    /\ IdleCache

\* one call of identity_mapping, from _get_parameters to the return
CallIdentityMappingOnce ==
    /\ self.calls < MaxLookups
    /\ \E args \in IdentityArgs :
          \E r \in {IdentityMapping(args, identities)} :
             /\ ret' = [kind |-> r.kind, err |-> r.err, value |-> r.value,
                        hit |-> r.hit, args |-> args]
             /\ identities' = r.dict
             /\ self' = [calls |-> self.calls + 1]
    /\ UNCHANGED notLookupVars

NextLookups == CallIdentityMappingOnce

SpecLookups == InitLookups /\ [][NextLookups]_vars

\* C26, as stated: the cache is transparent; whatever calls came before,
\* with whatever batch shape, device and cache argument, a call returns
\* the mapping that a computation from scratch gives for its size, dtype,
\* shape and device
C26_CacheTransparent ==
    ret.kind # "none" =>
        /\ ret.kind = "return"
        /\ ret.value = ReshapeAndMove(CreateIdentityMapping(GetParameters(ret.args)),
                                      GetParameters(ret.args))

\* ------------------------------------------- inference/vector_vote.py

MaxFields == 4

\* a list of n >= 2 fields, each by the vector it holds at the pixel, and T
VectorVoteInputs ==
    [fields : {f \in SeqsUpTo(Vectors, MaxFields) : Len(f) >= 2}, T : SoftminTemps]

\* dist(U, V): pow(sum(pow(U - V, 2), 3), 0.5)
Dist(U, V) == Distance(U, V)

\* get_diffs: for i in range(len(fields)): for j in range(i+1, len(fields)):
\*     diffs.append(dist(fields[i], fields[j]))
\* Each appended distance is kept with the i and j of its iteration.
RECURSIVE GetDiffsLoop(_, _, _, _)
GetDiffsLoop(fields, i, j, diffs) ==
    IF i >= Len(fields) THEN diffs
    ELSE IF j >= Len(fields) THEN GetDiffsLoop(fields, i + 1, i + 2, diffs)
    ELSE GetDiffsLoop(fields, i, j + 1,
                      Append(diffs, [i |-> i, j |-> j,
                                     d |-> Dist(fields[i + 1], fields[j + 1])]))

\* torch.cat(diffs, dim=0)
GetDiffs(fields) ==
    LET diffs == GetDiffsLoop(fields, 0, 1, <<>>)
    IN AsTuple([k \in 1..Len(diffs) |-> diffs[k].d])

\* softmax(-diffs / T, dim=0): the fractions num[k] / den
WeightDiffs(diffs, T) ==
    LET e == AsTuple([k \in 1..Len(diffs) |->
                 (diffs[k] \div DistUnit) * (TempLcm \div T)])
        emax == MaxOf(SeqToSet(e))
        w == AsTuple([k \in 1..Len(diffs) |-> Pow(Base, emax - e[k])])
    IN [num |-> w, den |-> SumSeq(w)]

\* math.sqrt(x), rounded down
FloorSqrt(x) == CHOOSE r \in 0..x : r * r <= x /\ x < (r + 1) * (r + 1)

\* n = int((1 + math.sqrt(1 + 8*m)) / 2)
FieldCount(m) == (1 + FloorSqrt(1 + 8 * m)) \div 2

\* mutant: the weight of a pair credited to its first field only
CreditFirst(C, i, j, w) == [C EXCEPT ![i + 1] = @ + w]

\* C[i,...] += W[k,...]; C[j,...] += W[k,...]
CreditPair(C, i, j, w) == [C EXCEPT ![i + 1] = @ + w, ![j + 1] = @ + w]

\* k = 0; for i in range(n): for j in range(i+1, n): ...; k += 1
RECURSIVE CompileLoop(_, _, _, _, _, _)
CompileLoop(W, n, i, j, k, C) ==
    IF i >= n THEN C
    ELSE IF j >= n THEN CompileLoop(W, n, i + 1, i + 2, k, C)
    ELSE CompileLoop(W, n, i, j + 1, k + 1, CreditPair(C, i, j, W[k + 1]))

\* compile_field_weights(W): C / (n-1), the fractions num[i] / den
CompileFieldWeights(W) ==
    LET m == Len(W.num)
        n == FieldCount(m)
        C == CompileLoop(W.num, n, 0, 1, 0, AsTuple([i \in 1..n |-> 0]))
    IN [n |-> n, num |-> C, den |-> W.den * (n - 1)]

\* weighted_sum_fields(weights, fields): matmul of the weights and the
\* fields, per pixel sum_i weights[i] * fields[i]
WeightedSumFields(weights, fields) ==
    [x |-> SumSeq([i \in 1..Len(fields) |-> weights.num[i] * fields[i][1]]),
     y |-> SumSeq([i \in 1..Len(fields) |-> weights.num[i] * fields[i][2]]),
     den |-> weights.den]

notVectorVoteVars == <<typeVars, cacheVars>>

InitVectorVote ==
    /\ self \in VectorVoteInputs
    /\ ret = NoCall
    /\ heap = EmptyHeap
    /\ tret = NoCall
    /\ IdleCache

\* vector_vote(fields, T)
VectorVote ==
    /\ ret = NoCall
    /\ \E pairs \in {GetDiffsLoop(self.fields, 0, 1, <<>>)} :
       \E diffs \in {GetDiffs(self.fields)} :
       \E diff_weights \in {WeightDiffs(diffs, self.T)} :
       \E field_weights \in {CompileFieldWeights(diff_weights)} :
          ret' = [kind |-> "return", pairs |-> pairs, diffs |-> diffs,
                  diff_weights |-> diff_weights, field_weights |-> field_weights,
                  out |-> WeightedSumFields(field_weights, self.fields)]
    /\ UNCHANGED <<self, notVectorVoteVars>>

NextVectorVote == VectorVote

SpecVectorVote == InitVectorVote /\ [][NextVectorVote]_vars

\* the indices k of the pairs that field f (counted from 0) belongs to
PairsOf(f) == {k \in 1..Len(ret.pairs) : ret.pairs[k].i = f \/ ret.pairs[k].j = f}

\* C27: compile_field_weights recovers the number n of fields from the
\* n(n-1)/2 pairwise differences, and the weight at index k is credited to
\* exactly the two fields i < j whose distance get_diffs put at index k:
\* each field accumulates the weights of the n-1 pairs it belongs to, and
\* nothing else
C27_PairsCredited ==
    ret.kind = "return" =>
        LET n == Len(self.fields)
        IN /\ Len(ret.diffs) = (n * (n - 1)) \div 2
           /\ ret.field_weights.n = n
           /\ \A k \in 1..Len(ret.pairs) :
                 /\ ret.pairs[k].i < ret.pairs[k].j
                 /\ ret.diffs[k] = Dist(self.fields[ret.pairs[k].i + 1],
                                        self.fields[ret.pairs[k].j + 1])
           /\ \A f \in 0..(n - 1) :
                 /\ Cardinality(PairsOf(f)) = n - 1
                 /\ ret.field_weights.num[f + 1] =
                        SumSeq([k \in 1..Len(ret.pairs) |->
                                   IF k \in PairsOf(f) THEN ret.diff_weights.num[k] ELSE 0])
           /\ ret.field_weights.den = ret.diff_weights.den * (n - 1)

C27_Witness ==
    /\ ret.kind = "return"
    /\ Len(self.fields) = 4
    /\ Cardinality(SeqToSet(ret.diff_weights.num)) >= 3
    /\ Cardinality(SeqToSet(ret.field_weights.num)) >= 3

C29_CopySectionDefined ==
    ret.kind # "none" =>
        /\ CopyRange(self.tgt_radius, self.restart) = <<self.tgt_radius - 1>>
        /\ ret.kind # "raise"

\* --------------------------------------------------------- make_range

MaxBlockLen == 6

MaxParts == 6

\* a non-empty block_range, range(start, start + len), and part_num >= 1
MakeRangeInputs ==
    [block_range : {PyRange(start, start + len) :
                        start \in 0..MaxZStart, len \in 1..MaxBlockLen},
     part_num : 1..MaxParts]

\* part: rangelen if rangelen < part_num, else part_num
Part(rangelen, part_num) == IF rangelen < part_num THEN rangelen ELSE part_num

\* mutant: the length of a sub-range rounded up
SrangeRoundedUp(rangelen, part_num) ==
    IF rangelen < part_num THEN 1
    ELSE (rangelen + part_num - 1) \div part_num

\* srange: 1 if rangelen < part_num, else rangelen // part
Srange(rangelen, part_num) ==
    IF rangelen < part_num THEN 1 ELSE rangelen \div part_num

\* make_range(block_range, part_num): part - 1 slices of srange elements,
\* then block_range[(part-1)*srange:]
MakeRange(block_range, part_num) ==
    LET rangelen == Len(block_range)
        part == Part(rangelen, part_num)
        srange == Srange(rangelen, part_num)
    IN AsTuple([i \in 1..(part - 1) |->
                   Slice(block_range, (i - 1) * srange, i * srange)])
         \o << Slice(block_range, (part - 1) * srange, rangelen) >>

notMakeRangeVars == <<typeVars, cacheVars>>

InitMakeRange ==
    /\ self \in MakeRangeInputs
    /\ ret = NoCall
    /\ heap = EmptyHeap
    /\ tret = NoCall
    /\ IdleCache

\* range_list = make_range(block_range, part_num)
CallMakeRange ==
    /\ ret = NoCall
    /\ ret' = [kind |-> "return",
               range_list |-> MakeRange(self.block_range, self.part_num)]
    /\ UNCHANGED <<self, notMakeRangeVars>>

NextMakeRange == CallMakeRange

SpecMakeRange == InitMakeRange /\ [][NextMakeRange]_vars

\* the lists of a list, one after the other
RECURSIVE Chained(_)
Chained(lists) == IF lists = <<>> THEN <<>> ELSE Head(lists) \o Chained(Tail(lists))

\* C30: make_range of a non-empty block_range and part_num >= 1 returns
\* min(len(block_range), part_num) sub-ranges, none empty, that chained in
\* order give block_range, all but the last of
\* len(block_range) // (number of sub-ranges) elements
C30_MakeRangePartitions ==
    ret.kind = "return" =>
        LET rangelen == Len(self.block_range)
            parts == Len(ret.range_list)
        IN /\ parts = MinOf({rangelen, self.part_num})
           /\ \A i \in 1..parts : ret.range_list[i] # <<>>
           /\ Chained(ret.range_list) = self.block_range
           /\ \A i \in 1..(parts - 1) : Len(ret.range_list[i]) = rangelen \div parts

C30_Witness ==
    /\ ret.kind = "return"
    /\ Len(self.block_range) = 5
    /\ self.part_num = 3
    /\ Len(ret.range_list[3]) = 3
    /\ self.block_range[1] > 0

====
